---- MODULE Spec2Model ----
(***************************************************************************)
(* Bolt: the radix-tree router (Router.AddRoute / addRoute / insertChild / *)
(* Router.GetValue of the router source) as a state machine.               *)
(*                                                                         *)
(* A Go string or []byte is a sequence of one-character strings.  A *Node  *)
(* is the record of its fields; the children slice holds the child         *)
(* records themselves (the tree has no sharing: a split hands the old      *)
(* children to exactly one new node).                                      *)
(***************************************************************************)
EXTENDS Integers, Sequences, FiniteSets, TLC

VARIABLES trees, regs, last, walkers,
          apps, backing, closures, calls, served,
          enc, pool, held,
          ctx, reqs

appVars == <<apps, backing, closures, calls, served>>

routerVars == <<trees, regs, last, walkers>>

poolVars == <<pool, held>>

vars == <<trees, regs, last, walkers, apps, backing, closures, calls, served,
          enc, pool, held, ctx, reqs>>

(***************************************************************************)
(* Bounds and input sets                                                   *)
(***************************************************************************)
\* Number of successful registrations made on one router.
MaxRoutes == 3

\* Number of registrations made in the build phase before lookups are served
\* concurrently, and number of lookups in flight at once.
MaxBuilt   == 2
MaxLookups == 2

\* Number of calls (Use, Get, Group, SetErrorHandler) made on the application
\* and its groups, and number of App values (the application and its groups).
MaxCalls == 4
MaxApps  == 3

\* Number of fields given to one call of the encoder, and the latest write
\* to the sink that may be the failing one.
MaxFields == 3
MaxFailOn == 2

\* Number of Context objects alive at once (pooled or in the hands of a
\* request), and number of requests in flight at once.
MaxContexts == 2
MaxInFlight == 2

\* The most calls a handler makes on its context
MaxResponses == 2

Methods == {"GET", "POST"}

\* A nil Handler.  Registered handlers are the positive numbers: the n-th
\* successful registration passes the function value n.
NoHandler == 0

usersId      == <<"/","u","s","e","r","s","/",":","i","d">>
usersNew     == <<"/","u","s","e","r","s","/","n","e","w">>
filesRest    == <<"/","f","i","l","e","s","/","*","r","e","s","t">>
usersIdPosts == <<"/","u","s","e","r","s","/",":","i","d","/","p","o","s","t","s">>
slashX       == <<"/","x">>
filesA       == <<"/","f","i","l","e","s","/","a">>
noSlash      == <<"x">>
emptyPath    == <<>>

users42      == <<"/","u","s","e","r","s","/","4","2">>
usersNews    == <<"/","u","s","e","r","s","/","n","e","w","s">>
filesABC     == <<"/","f","i","l","e","s","/","a","/","b","/","c">>
users42Posts == <<"/","u","s","e","r","s","/","4","2","/","p","o","s","t","s">>

\* Route paths handed to AddRoute: the well-formed ones and the malformed ones.
GoodPaths  == {usersId, usersNew, filesRest, filesA, usersIdPosts, slashX}
BadPaths   == {noSlash, emptyPath}
RoutePaths == GoodPaths \cup BadPaths

\* Request paths handed to GetValue (r.URL.Path is never empty).
ReqPaths == GoodPaths \cup {users42, usersNews, filesABC, users42Posts}

\* Paths and group prefixes given to the application, and the request paths
\* it serves
slashA     == <<"/","a">>
slashB     == <<"/","b">>
groupG     == <<"/","g">>
AppPaths   == {slashA, slashB}
Prefixes   == {groupG}
ServePaths == {slashA, groupG \o slashA, slashX}

\* Route paths of the build phase that precedes concurrent lookups, and the
\* request paths of those lookups
BuiltPaths  == {usersId, usersNew, filesRest}
LookupPaths == {users42, usersNew, filesABC}

\* Route paths that share prefixes byte by byte: static paths that are
\* prefixes and extensions of each other, two parameters and two wildcards at
\* one position, and a route that goes on after a wildcard
slash      == <<"/">>
slashAB    == <<"/","a","b">>
slashASl   == <<"/","a","/">>
uId        == <<"/","u","/",":","i","d">>
uName      == <<"/","u","/",":","n","a","m","e">>
uNew       == <<"/","u","/","n","e","w">>
fR         == <<"/","f","/","*","r">>
fRest      == <<"/","f","/","*","r","e","s","t">>
fRX        == <<"/","f","/","*","r","/","x">>
fA         == <<"/","f","/","a">>
StaticPaths == {slash, slashA, slashAB, slashASl}
TriePaths   == StaticPaths \cup {uId, uName, uNew, fR, fRest, fRX, fA}

\* and the request paths looked up on them
slashABC   == <<"/","a","b","c">>
u42        == <<"/","u","/","4","2">>
uNews      == <<"/","u","/","n","e","w","s">>
fBC        == <<"/","f","/","b","/","c">>
fBX        == <<"/","f","/","b","/","x">>
TrieReqPaths ==
    StaticPaths \cup {slashB, slashABC, u42, uNew, uNews, fA, fBC, fBX}

\* Static route paths only, and the request paths looked up on them: the
\* route paths, proper prefixes and extensions of them, and paths with one
\* more or one less '/' at the end
slashABSl      == <<"/","a","b","/">>
StaticRoutes   == StaticPaths \cup {slashB}
StaticReqPaths == StaticRoutes \cup {slashABC, slashABSl}

(***************************************************************************)
(* Go slices and maps                                                      *)
(***************************************************************************)
\* s[i:] and s[:i] with Go's 0-based i
From(s, i) == SubSeq(s, i + 1, Len(s))
Upto(s, i) == SubSeq(s, 1, i)

\* ParamMap: nil, or a map held as its set of <<key, value>> entries
NilParams   == [isNil |-> TRUE,  entries |-> {}]
EmptyParams == [isNil |-> FALSE, entries |-> {}]

\* params[k] = v
SetParam(params, k, v) ==
    [isNil |-> FALSE,
     entries |-> {e \in params.entries : e[1] # k} \cup {<<k, v>>}]

\* The pair GetValue returns
Result(handler, params) == [handler |-> handler, params |-> params]
NoMatch == Result(NoHandler, NilParams)

(***************************************************************************)
(* Node                                                                    *)
(***************************************************************************)
\* map[HTTPMethod]Handler: handlersNil says the map is nil; a made map is the
\* function that gives NoHandler for an absent key, as a Go map read does.
NoHandlers == [m \in Methods |-> NoHandler]

\* &Node{}
\* priority is a uint32; it is held as the representative of its value
\* modulo 2^32 in -2^31 .. 2^31-1, so 0 - 1 is -1.
NewNode ==
    [path |-> <<>>, indices |-> <<>>, children |-> <<>>,
     handlersNil |-> TRUE, handlers |-> NoHandlers,
     nodeType |-> "staticNode", priority |-> 0, paramName |-> <<>>]

\* SetHandler that keeps a handler the method already has
SetHandlerKeepFirst(n, method, handler) ==
    [n EXCEPT !.handlersNil = FALSE,
              !.handlers[method] = IF @ = NoHandler THEN handler ELSE @]

\* if n.handlers == nil { make }; n.handlers[method] = handler
SetHandler(n, method, handler) ==
    [n EXCEPT !.handlersNil = FALSE, !.handlers[method] = handler]

\* the longest common prefix loop of addRoute
RECURSIVE CommonPrefix(_, _, _)
CommonPrefix(a, b, i) ==
    IF i < Len(a) /\ i < Len(b) /\ a[i + 1] = b[i + 1]
    THEN CommonPrefix(a, b, i + 1)
    ELSE i

\* the first j (1-based) with indices[j] = c, or 0
IndexOf(indices, c) ==
    IF \E j \in 1..Len(indices) : indices[j] = c
    THEN CHOOSE j \in 1..Len(indices) :
            /\ indices[j] = c
            /\ \A k \in 1..(j - 1) : indices[k] # c
    ELSE 0

\* the first 0-based offset >= from at which pred holds, or Len(s)
RECURSIVE ScanTo(_, _, _)
ScanTo(s, from, stops) ==
    IF from < Len(s) /\ s[from + 1] \notin stops
    THEN ScanTo(s, from + 1, stops)
    ELSE from

(***************************************************************************)
(* Registration                                                            *)
(***************************************************************************)
RECURSIVE addRouteWalk(_, _, _, _)
RECURSIVE addRoute(_, _, _, _)
RECURSIVE insertChild(_, _, _, _)

\* splitNode that leaves the handlers on the node that keeps the prefix
splitNodeKeepsHandlers(n, i) ==
    LET child == [path |-> From(n.path, i),
                  indices |-> n.indices,
                  children |-> n.children,
                  handlersNil |-> n.handlersNil,
                  handlers |-> n.handlers,
                  nodeType |-> n.nodeType,
                  priority |-> n.priority - 1,
                  paramName |-> n.paramName]
    IN  [path |-> Upto(n.path, i),
         indices |-> <<n.path[i + 1]>>,
         children |-> <<child>>,
         handlersNil |-> n.handlersNil,
         handlers |-> n.handlers,
         nodeType |-> "staticNode",
         priority |-> n.priority,
         paramName |-> <<>>]

\* Case 1 of the walk loop: the node keeps the common prefix path[:i], the
\* new child takes the rest of the node and everything the node had.
splitNode(n, i) ==
    LET child == [path |-> From(n.path, i),
                  indices |-> n.indices,
                  children |-> n.children,
                  handlersNil |-> n.handlersNil,
                  handlers |-> n.handlers,
                  nodeType |-> n.nodeType,
                  priority |-> n.priority - 1,
                  paramName |-> n.paramName]
    IN  [path |-> Upto(n.path, i),
         indices |-> <<n.path[i + 1]>>,
         children |-> <<child>>,
         handlersNil |-> TRUE,
         handlers |-> NoHandlers,
         nodeType |-> "staticNode",
         priority |-> n.priority,
         paramName |-> <<>>]

\* insertChild fills the fresh node n from path, which holds at most the
\* first ':' or '*' of the route in this node.
insertChild(n, path, handler, method) ==
    LET offset == ScanTo(path, 0, {":", "*"})
    IN  IF offset < Len(path)
        THEN IF path[offset + 1] = ":"
             THEN LET end == ScanTo(path, offset + 1, {"/"})
                      n1  == [n EXCEPT !.path = Upto(path, end),
                                       !.paramName = SubSeq(path, offset + 2, end),
                                       !.nodeType = "paramNode"]
                  IN  IF end < Len(path)
                      THEN [n1 EXCEPT
                              !.indices = <<path[end + 1]>>,
                              !.children = <<addRoute(NewNode, From(path, end),
                                                      handler, method)>>]
                      ELSE SetHandler(n1, method, handler)
             ELSE SetHandler([n EXCEPT !.path = path,
                                       !.paramName = From(path, offset + 1),
                                       !.nodeType = "wildcardNode"],
                             method, handler)
        ELSE SetHandler([n EXCEPT !.path = path], method, handler)

\* one turn of the walk loop of addRoute at node n; "continue walk" is the
\* recursive call on the chosen child
addRouteWalk(n, path, handler, method) ==
    LET i  == CommonPrefix(path, n.path, 0)
        n1 == IF i < Len(n.path) THEN splitNode(n, i) ELSE n
    IN  IF i < Len(path)
        THEN LET rest == From(path, i)
                 c    == rest[1]
                 j    == IndexOf(n1.indices, c)
             IN  IF j # 0
                 THEN [n1 EXCEPT !.children[j] =
                                    addRouteWalk(@, rest, handler, method)]
                 ELSE [n1 EXCEPT
                         !.indices = Append(@, c),
                         !.children = Append(@, insertChild(NewNode, rest,
                                                            handler, method))]
        ELSE SetHandler(n1, method, handler)

addRoute(n, path, handler, method) ==
    addRouteWalk([n EXCEPT !.priority = @ + 1], path, handler, method)

\* Router.AddRoute that looks up and creates the root before checking the path
AddRouteCheckLast(r, method, path, handler) ==
    LET root == IF method \in DOMAIN r THEN r[method] ELSE NewNode
        withRoot(n) == [m \in (DOMAIN r) \cup {method} |->
                          IF m = method THEN n ELSE r[m]]
    IN  IF Len(path) = 0 \/ path[1] # "/"
        THEN [panicked |-> TRUE, trees |-> withRoot(root)]
        ELSE [panicked |-> FALSE,
              trees |-> withRoot(addRoute(root, path, handler, method))]

\* Router.AddRoute on the trees map r: the panic flag and the map afterwards.
\* path[0] of an empty path is an index-out-of-range panic.
AddRoute(r, method, path, handler) ==
    IF Len(path) = 0 \/ path[1] # "/"
    THEN [panicked |-> TRUE, trees |-> r]
    ELSE LET root == IF method \in DOMAIN r THEN r[method] ELSE NewNode
         IN  [panicked |-> FALSE,
              trees |-> [m \in (DOMAIN r) \cup {method} |->
                            IF m = method
                            THEN addRoute(root, path, handler, method)
                            ELSE r[m]]]

(***************************************************************************)
(* Lookup                                                                  *)
(***************************************************************************)
\* The child GetValue goes to from node root when byte c is the next byte of
\* the request: the child whose key in indices is c; or else the first child
\* when that is a paramNode; or else the first child when that is a
\* wildcardNode; or else none.
childFor(root, c) ==
    LET j == IndexOf(root.indices, c)
    IN  IF j # 0
        THEN [kind |-> "static", index |-> j]
        ELSE IF Len(root.children) > 0
                /\ root.children[1].nodeType = "paramNode"
        THEN [kind |-> "param", index |-> 1]
        ELSE IF Len(root.children) > 0
                /\ root.children[1].nodeType = "wildcardNode"
        THEN [kind |-> "wildcard", index |-> 1]
        ELSE [kind |-> "none", index |-> 0]

\* GetValueWalk that, when the keyed child gives no match, goes back and tries
\* the parameter or wildcard child of the node
RECURSIVE GetValueWalkBacktrack(_, _, _, _)
GetValueWalkBacktrack(root, pathBytes, params, method) ==
    LET prefixLen == Len(root.path)
    IN  IF Len(pathBytes) > prefixLen
        THEN IF Upto(pathBytes, prefixLen) = root.path
             THEN LET rest  == From(pathBytes, prefixLen)
                      next  == childFor(root, rest[1])
                      child == root.children[next.index]
                      first == root.children[1]
                      viaKey == GetValueWalkBacktrack(child, rest, params, method)
                      end   == ScanTo(rest, 0, {"/"})
                      viaParam(ch) ==
                          LET bound == SetParam(params, ch.paramName,
                                                Upto(rest, end))
                          IN  IF end < Len(rest)
                              THEN GetValueWalkBacktrack(ch, From(rest, end),
                                                         bound, method)
                              ELSE Result(ch.handlers[method], bound)
                      viaWildcard(ch) ==
                          Result(ch.handlers[method],
                                 SetParam(params, ch.paramName, rest))
                  IN  CASE next.kind = "static" ->
                             IF viaKey # NoMatch THEN viaKey
                             ELSE IF first.nodeType = "paramNode"
                             THEN viaParam(first)
                             ELSE IF first.nodeType = "wildcardNode"
                             THEN viaWildcard(first)
                             ELSE NoMatch
                        [] next.kind = "param" -> viaParam(child)
                        [] next.kind = "wildcard" -> viaWildcard(child)
                        [] OTHER -> NoMatch
             ELSE NoMatch
        ELSE IF pathBytes = root.path /\ ~root.handlersNil
             THEN Result(root.handlers[method], params)
             ELSE NoMatch

\* one turn of the walk loop of GetValue at node root; "continue walk" is the
\* recursive call
RECURSIVE GetValueWalk(_, _, _, _)
GetValueWalk(root, pathBytes, params, method) ==
    LET prefixLen == Len(root.path)
    IN  IF Len(pathBytes) > prefixLen
        THEN IF Upto(pathBytes, prefixLen) = root.path
             THEN LET rest == From(pathBytes, prefixLen)
                      next == childFor(root, rest[1])
                      child == root.children[next.index]
                  IN  CASE next.kind = "static" ->
                             GetValueWalk(child, rest, params, method)
                        [] next.kind = "param" ->
                             LET end   == ScanTo(rest, 0, {"/"})
                                 bound == SetParam(params, child.paramName,
                                                   Upto(rest, end))
                             IN  IF end < Len(rest)
                                 THEN GetValueWalk(child, From(rest, end),
                                                   bound, method)
                                 ELSE Result(child.handlers[method], bound)
                        [] next.kind = "wildcard" ->
                             Result(child.handlers[method],
                                    SetParam(params, child.paramName, rest))
                        [] OTHER -> NoMatch
             ELSE NoMatch
        ELSE IF pathBytes = root.path /\ ~root.handlersNil
             THEN Result(root.handlers[method], params)
             ELSE NoMatch

\* Router.GetValue on the trees map r
GetValue(r, method, path) ==
    IF method \notin DOMAIN r
    THEN NoMatch
    ELSE GetValueWalk(r[method], path, EmptyParams, method)

(***************************************************************************)
(* Lookup, one turn of the walk loop at a time                             *)
(***************************************************************************)
\* The locals of one running GetValue call: root is held as the sequence of
\* child positions that leads to it from r.trees[method].
Idle ==
    [pc |-> "idle", method |-> "GET", path |-> <<>>, pathBytes |-> <<>>,
     at |-> <<>>, params |-> NilParams, result |-> NoMatch]

Returned(wk, result) ==
    [wk EXCEPT !.pc = "done", !.result = result]

\* the node reached from n through the child positions at
RECURSIVE NodeAt(_, _)
NodeAt(n, at) ==
    IF at = <<>> THEN n ELSE NodeAt(n.children[at[1]], Tail(at))

\* the entry of GetValue up to the walk loop
getValueEnter(r, method, path) ==
    IF method \notin DOMAIN r
    THEN Returned([Idle EXCEPT !.method = method, !.path = path], NoMatch)
    ELSE [pc |-> "walk", method |-> method, path |-> path,
          pathBytes |-> path, at |-> <<>>,
          params |-> EmptyParams, result |-> NoMatch]

\* n with the priority of the node at position at raised by one
RECURSIVE BumpPriority(_, _)
BumpPriority(n, at) ==
    IF at = <<>>
    THEN [n EXCEPT !.priority = @ + 1]
    ELSE [n EXCEPT !.children[at[1]] = BumpPriority(@, Tail(at))]

\* one turn of the walk loop of GetValue for the call with locals wk on the
\* trees map r: the locals afterwards
getValueTurnLocals(r, wk) ==
    LET root      == NodeAt(r[wk.method], wk.at)
        prefixLen == Len(root.path)
    IN  IF Len(wk.pathBytes) > prefixLen
        THEN IF Upto(wk.pathBytes, prefixLen) = root.path
             THEN LET rest  == From(wk.pathBytes, prefixLen)
                      next  == childFor(root, rest[1])
                      child == root.children[next.index]
                  IN  CASE next.kind = "static" ->
                             [wk EXCEPT !.pathBytes = rest,
                                        !.at = Append(@, next.index)]
                        [] next.kind = "param" ->
                             LET end   == ScanTo(rest, 0, {"/"})
                                 bound == SetParam(wk.params, child.paramName,
                                                   Upto(rest, end))
                             IN  IF end < Len(rest)
                                 THEN [wk EXCEPT
                                         !.pathBytes = From(rest, end),
                                         !.at = Append(@, next.index),
                                         !.params = bound]
                                 ELSE Returned(wk,
                                        Result(child.handlers[wk.method], bound))
                        [] next.kind = "wildcard" ->
                             Returned(wk,
                                Result(child.handlers[wk.method],
                                       SetParam(wk.params, child.paramName,
                                                rest)))
                        [] OTHER -> Returned(wk, NoMatch)
             ELSE Returned(wk, NoMatch)
        ELSE IF wk.pathBytes = root.path /\ ~root.handlersNil
             THEN Returned(wk, Result(root.handlers[wk.method], wk.params))
             ELSE Returned(wk, NoMatch)

\* getValueTurn that counts the visit in the node it stands on, the way
\* addRoute counts in n.priority
getValueTurnCounting(r, wk) ==
    [walker |-> getValueTurnLocals(r, wk),
     trees  |-> [r EXCEPT ![wk.method] = BumpPriority(@, wk.at)]]

\* one turn of the walk loop: the locals and the trees map afterwards.  The
\* loop assigns to root, pathBytes, params and handler only, never through
\* root.
getValueTurn(r, wk) ==
    [walker |-> getValueTurnLocals(r, wk), trees |-> r]

(***************************************************************************)
(* The state machine                                                       *)
(***************************************************************************)
\* trees: Router.trees, defined on the methods that have a root
\* regs:  the successful registrations so far, in order
\* last:  the call on the router that has just returned, with what it
\*        returned, until the caller has taken the result; NoCall otherwise.
\*        The callers are sequential: registration is single-threaded and a
\*        lookup is one read-only pass over the trie.
NoCall ==
    [op |-> "none", method |-> "GET", path |-> <<>>, panicked |-> FALSE,
     result |-> NoMatch]

AllIdle == [w \in 1..MaxLookups |-> Idle]

Init ==
    /\ trees = << >>
    /\ regs = << >>
    /\ last = NoCall
    /\ walkers = << >>
    /\ apps = << >> /\ backing = << >> /\ closures = << >>
    /\ calls = << >> /\ served = [op |-> "none"]
    /\ enc = [pc |-> "idle"]
    /\ pool = << >> /\ held = << >>
    /\ ctx = [pc |-> "idle"] /\ reqs = << >>

\* app code calls r.AddRoute(method, path, handler)
Register(method, path) ==
    /\ last = NoCall
    /\ Len(regs) < MaxRoutes
    /\ LET handler == Len(regs) + 1
           out     == AddRoute(trees, method, path, handler)
       IN  /\ trees' = out.trees
           /\ regs' = IF out.panicked
                      THEN regs
                      ELSE Append(regs, [method |-> method, path |-> path,
                                         handler |-> handler])
           /\ last' = [op |-> "AddRoute", method |-> method, path |-> path,
                       panicked |-> out.panicked, result |-> NoMatch]
           /\ UNCHANGED <<walkers, appVars, enc, poolVars, ctx, reqs>>

\* the dispatcher calls r.GetValue(method, path)
Resolve(method, path) ==
    /\ last = NoCall
    /\ last' = [op |-> "GetValue", method |-> method, path |-> path,
                panicked |-> FALSE, result |-> GetValue(trees, method, path)]
    /\ UNCHANGED <<trees, regs, walkers, appVars, enc, poolVars, ctx, reqs>>

\* the caller has taken the result (or recovered from the panic)
Return ==
    /\ last # NoCall
    /\ last' = NoCall
    /\ UNCHANGED <<trees, regs, walkers, appVars, enc, poolVars, ctx, reqs>>

Next ==
    \/ \E method \in Methods, path \in RoutePaths : Register(method, path)
    \/ \E method \in Methods, path \in ReqPaths : Resolve(method, path)
    \/ Return

Spec == Init /\ [][Next]_vars

\* The same router with the route paths that share prefixes, under one method
TrieNext ==
    \/ \E path \in TriePaths : Register("GET", path)
    \/ \E path \in TrieReqPaths : Resolve("GET", path)
    \/ Return

TrieSpec == Init /\ [][TrieNext]_vars

\* The same router with static routes only
StaticNext ==
    \/ \E path \in StaticRoutes : Register("GET", path)
    \/ \E path \in StaticReqPaths : Resolve("GET", path)
    \/ Return

StaticSpec == Init /\ [][StaticNext]_vars

(***************************************************************************)
(* The router of router.go: Node with a wildcard flag, Node.addRoute and   *)
(* Node.insertChild.  A call gives the node afterwards and the runtime     *)
(* fault it ended with, if any; what the call had assigned before the      *)
(* fault stays assigned.                                                   *)
(***************************************************************************)
NoFault          == "none"
IndexOutOfRange  == "index out of range"
WildcardConflict == "wildcard conflicts with existing children"

\* &Node{priority: priority, handlers: make(map[HTTPMethod]Handler)}
WildcardFlagNode(priority) ==
    [path |-> <<>>, indices |-> <<>>, children |-> <<>>,
     handlersNil |-> FALSE, handlers |-> NoHandlers,
     priority |-> priority, wildcard |-> FALSE, paramName |-> <<>>]

longestCommonPrefix(a, b) == CommonPrefix(a, b, 0)

\* for end < max && path[end] != '/' { end++ }: path[end] is read while
\* end < max, whatever the length of path has become
RECURSIVE scanEnd(_, _, _)
scanEnd(path, end, max) ==
    IF end < max
    THEN IF end >= Len(path)
         THEN [fault |-> IndexOutOfRange, end |-> end]
         ELSE IF path[end + 1] # "/"
         THEN scanEnd(path, end + 1, max)
         ELSE [fault |-> NoFault, end |-> end]
    ELSE [fault |-> NoFault, end |-> end]

\* chain[1] with chain[2] as its only child, that one with chain[3] as its
\* only child, and so on: the nodes insertChild has linked below each other
RECURSIVE linked(_)
linked(chain) ==
    IF Len(chain) = 1 THEN chain[1]
    ELSE [chain[1] EXCEPT !.children = <<linked(Tail(chain))>>]

\* The loop of Node.insertChild from index i on.  chain holds the node the
\* method was called on and the nodes it has made below it; n is the last
\* of them.  max is the length path had at the call.
RECURSIVE insertChildFrom(_, _, _, _, _, _, _)
insertChildFrom(chain, path, offset, i, max, method, handler) ==
    LET n          == chain[Len(chain)]
        withN(m)   == [chain EXCEPT ![Len(chain)] = m]
        ends(f, c) == [fault |-> f, node |-> linked(c)]
    IN  IF i >= max
        THEN IF offset > Len(path)
             THEN ends(IndexOutOfRange, chain)
             ELSE ends(NoFault,
                       withN(SetHandler([n EXCEPT !.path = From(path, offset)],
                                        method, handler)))
        ELSE IF i >= Len(path)
        THEN ends(IndexOutOfRange, chain)
        ELSE IF path[i + 1] \notin {":", "*"}
        THEN insertChildFrom(chain, path, offset, i + 1, max, method, handler)
        ELSE LET c    == path[i + 1]
                 scan == scanEnd(path, i + 1, max)
                 end  == scan.end
             IN  IF scan.fault # NoFault
                 THEN ends(scan.fault, chain)
                 ELSE IF Len(n.children) > 0
                 THEN ends(WildcardConflict, chain)
                 ELSE IF end > Len(path)
                 THEN ends(IndexOutOfRange, chain)
                 ELSE LET paramName == SubSeq(path, i + 2, end)
                          n1     == IF i > 0
                                    THEN [n EXCEPT !.path = Upto(path, i)]
                                    ELSE n
                          path1  == IF i > 0 THEN From(path, i) ELSE path
                          child  == [WildcardFlagNode(1) EXCEPT
                                        !.wildcard = (c = "*"),
                                        !.paramName = paramName]
                          chain1 == Append(withN([n1 EXCEPT !.indices = <<c>>]),
                                           child)
                      IN  IF c = "*"
                          THEN ends(NoFault,
                                    [chain1 EXCEPT ![Len(chain1)] =
                                        SetHandler(child, method, handler)])
                          ELSE IF end < max
                          THEN IF end - i > Len(path1)
                               THEN ends(IndexOutOfRange, chain1)
                               ELSE insertChildFrom(
                                      Append([chain1 EXCEPT ![Len(chain1)] =
                                                [child EXCEPT !.path =
                                                    Upto(path1, end - i)]],
                                             WildcardFlagNode(1)),
                                      From(path1, end - i), i, i + 1, max,
                                      method, handler)
                          ELSE insertChildFrom(chain1, path1, i, i + 1, max,
                                               method, handler)

\* n.insertChild(path, method, handler)
NodeInsertChild(n, path, method, handler) ==
    insertChildFrom(<<n>>, path, 0, 0, Len(path), method, handler)

\* the walk loop of Node.addRoute at node n
RECURSIVE nodeAddRouteWalk(_, _, _, _)
nodeAddRouteWalk(n, path, method, handler) ==
    LET i  == longestCommonPrefix(path, n.path)
        n1 == IF i < Len(n.path)
              THEN [n EXCEPT
                      !.children = <<[path |-> From(n.path, i),
                                      indices |-> n.indices,
                                      children |-> n.children,
                                      handlersNil |-> n.handlersNil,
                                      handlers |-> n.handlers,
                                      priority |-> n.priority - 1,
                                      wildcard |-> n.wildcard,
                                      paramName |-> <<>>]>>,
                      !.indices = <<n.path[i + 1]>>,
                      !.path = Upto(path, i),
                      !.handlersNil = FALSE,
                      !.handlers = NoHandlers,
                      !.wildcard = FALSE]
              ELSE n
    IN  IF i < Len(path)
        THEN LET rest == From(path, i)
                 c    == rest[1]
                 j    == IndexOf(n1.indices, c)
             IN  IF j # 0
                 THEN LET below == nodeAddRouteWalk(
                                      [n1.children[j] EXCEPT !.priority = @ + 1],
                                      rest, method, handler)
                      IN  [fault |-> below.fault,
                           node |-> [n1 EXCEPT !.children[j] = below.node]]
                 ELSE IF c \in {":", "*"}
                 THEN NodeInsertChild(n1, rest, method, handler)
                 ELSE LET below == NodeInsertChild(WildcardFlagNode(1), rest,
                                                   method, handler)
                      IN  [fault |-> below.fault,
                           node |-> [n1 EXCEPT
                                       !.indices = Append(@, c),
                                       !.children = Append(@, below.node)]]
        ELSE [fault |-> NoFault, node |-> SetHandler(n1, method, handler)]

\* n.addRoute(path, method, handler)
NodeAddRoute(n, path, method, handler) ==
    LET n1 == [n EXCEPT !.priority = @ + 1]
    IN  IF n1.path = <<>> /\ Len(n1.children) = 0
        THEN NodeInsertChild(n1, path, method, handler)
        ELSE nodeAddRouteWalk(n1, path, method, handler)

\* Router.AddRoute of router.go on the trees map r
RouterAddRoute(r, method, path, handler) ==
    IF Len(path) = 0
    THEN [fault |-> IndexOutOfRange, trees |-> r]
    ELSE IF path[1] # "/"
    THEN [fault |-> "path must begin with '/'", trees |-> r]
    ELSE LET root == IF method \in DOMAIN r THEN r[method]
                     ELSE WildcardFlagNode(0)
             out  == NodeAddRoute(root, path, method, handler)
         IN  [fault |-> out.fault,
              trees |-> [m \in (DOMAIN r) \cup {method} |->
                            IF m = method THEN out.node ELSE r[m]]]

\* Route paths for that router: static text, a parameter with static text
\* before it, after it or on both sides, two parameters, a wildcard
paramOnly  == <<"/", ":", "i">>
paramThenX == <<"/", ":", "i", "/", "x">>
uIdX       == <<"/", "u", "/", ":", "i", "/", "x">>
twoParams  == <<"/", ":", "a", "/", ":", "b">>
wildOnly   == <<"/", "*", "r">>
WildcardFlagPaths ==
    {slash, slashA, slashAB, uId, fR, paramOnly, paramThenX, uIdX, twoParams,
     wildOnly}

\* app code calls r.AddRoute(method, path, handler) on that router; a fault
\* is a panic the caller recovers from.  n.priority++ counts the calls.
RegisterRoute(method, path) ==
    /\ last = NoCall
    /\ Len(regs) < MaxRoutes
    /\ method \in DOMAIN trees => trees[method].priority < MaxRoutes
    /\ LET handler == Len(regs) + 1
           out     == RouterAddRoute(trees, method, path, handler)
       IN  /\ trees' = out.trees
           /\ regs' = IF out.fault # NoFault
                      THEN regs
                      ELSE Append(regs, [method |-> method, path |-> path,
                                         handler |-> handler])
           /\ last' = [op |-> "AddRoute", method |-> method, path |-> path,
                       panicked |-> out.fault # NoFault, result |-> NoMatch]
    /\ UNCHANGED <<walkers, appVars, enc, poolVars, ctx, reqs>>

\* the caller goes on
RouteReturn ==
    /\ last # NoCall
    /\ last' = NoCall
    /\ UNCHANGED <<trees, regs, walkers, appVars, enc, poolVars, ctx, reqs>>

WildcardFlagNext ==
    \/ \E path \in WildcardFlagPaths : RegisterRoute("GET", path)
    \/ RouteReturn

WildcardFlagSpec == Init /\ [][WildcardFlagNext]_vars

(***************************************************************************)
(* The serving phase: concurrent lookups on a router that was built        *)
(***************************************************************************)
\* the routers that up to MaxBuilt registrations under one method build
RECURSIVE Built(_)
Built(k) ==
    IF k = 0
    THEN {[trees |-> << >>, regs |-> << >>]}
    ELSE LET prev == Built(k - 1)
         IN  prev \cup
             {[trees |-> AddRoute(b.trees, "GET", path, Len(b.regs) + 1).trees,
               regs  |-> Append(b.regs, [method |-> "GET", path |-> path,
                                         handler |-> Len(b.regs) + 1])] :
                b \in {x \in prev : Len(x.regs) = k - 1}, path \in BuiltPaths}

ServingInit ==
    /\ \E b \in Built(MaxBuilt) : trees = b.trees /\ regs = b.regs
    /\ last = NoCall
    /\ walkers = AllIdle
    /\ apps = << >> /\ backing = << >> /\ closures = << >>
    /\ calls = << >> /\ served = [op |-> "none"]
    /\ enc = [pc |-> "idle"]
    /\ pool = << >> /\ held = << >>
    /\ ctx = [pc |-> "idle"] /\ reqs = << >>

\* a worker goroutine enters r.GetValue(method, path)
BeginLookup(w, method, path) ==
    /\ walkers[w].pc = "idle"
    /\ walkers' = [walkers EXCEPT ![w] = getValueEnter(trees, method, path)]
    /\ UNCHANGED <<trees, regs, last, appVars, enc, poolVars, ctx, reqs>>

\* the goroutine runs one turn of the walk loop; nothing but its own
\* position decides whether it can
LookupTurn(w) ==
    /\ walkers[w].pc = "walk"
    /\ LET out == getValueTurn(trees, walkers[w])
       IN  /\ walkers' = [walkers EXCEPT ![w] = out.walker]
           /\ trees' = out.trees
    /\ UNCHANGED <<regs, last, appVars, enc, poolVars, ctx, reqs>>

\* the goroutine's caller has taken what GetValue returned
EndLookup(w) ==
    /\ walkers[w].pc = "done"
    /\ walkers' = [walkers EXCEPT ![w] = Idle]
    /\ UNCHANGED <<trees, regs, last, appVars, enc, poolVars, ctx, reqs>>

ServingNext ==
    \E w \in 1..MaxLookups :
        \/ \E method \in Methods, path \in LookupPaths :
              BeginLookup(w, method, path)
        \/ LookupTurn(w)
        \/ EndLookup(w)

ServingSpec == ServingInit /\ [][ServingNext]_vars

(***************************************************************************)
(* The application: Use, Group, route registration and ServeHTTP           *)
(***************************************************************************)
\* make([]Middleware, 0, 8) in New
MiddlewareCap == 8

\* A Go slice is the backing array it points into and its length; backing
\* holds the arrays, each as long as its capacity (0 in a slot never written).
NewArray(cap) == [i \in 1..cap |-> 0]

\* s[0:len(s)] as a sequence
Elems(b, s) == SubSeq(b[s.arr], 1, s.len)

\* append(s, v): in place while the capacity lasts, otherwise into a new
\* array of twice the capacity
GoAppend(b, s, v) ==
    IF s.len < Len(b[s.arr])
    THEN [backing |-> [b EXCEPT ![s.arr][s.len + 1] = v],
          slice   |-> [arr |-> s.arr, len |-> s.len + 1]]
    ELSE [backing |-> Append(b, Elems(b, s) \o <<v>>
                                 \o NewArray(Len(b[s.arr]) - 1)),
          slice   |-> [arr |-> Len(b) + 1, len |-> s.len + 1]]

\* pathBuilder.build(prefix, path)
build(prefix, path) == prefix \o path

\* A Handler is the sequence of the functions that run when it is called:
\* a route handler is its own name, and middleware m applied to next is m
\* followed by next (every middleware here calls next and returns its
\* result).
RouteHandler(id) == << <<"handler", id>> >>
ApplyMiddleware(m, next) == << <<"middleware", m>> >> \o next

RECURSIVE chainFrom(_, _, _)
chainFrom(middleware, i, h) ==
    IF i < 1 THEN h
    ELSE chainFrom(middleware, i - 1, ApplyMiddleware(middleware[i], h))

compileMiddleware(middleware, finalHandler) ==
    IF Len(middleware) = 0
    THEN finalHandler
    ELSE IF Len(middleware) = 1
    THEN ApplyMiddleware(middleware[1], finalHandler)
    ELSE chainFrom(middleware, Len(middleware), finalHandler)

\* errors.go
ErrNotFound   == "not found"
ErrBadRequest == "bad request"
NoError       == "nil"

\* DefaultErrorHandler whose switch has no case for ErrNotFound
DefaultErrorHandlerNoCase(statusCode, err) ==
    IF err = NoError
    THEN statusCode
    ELSE LET code == CASE err = ErrBadRequest -> 400
                       [] OTHER               -> 500
         IN  IF statusCode = 0 THEN code ELSE statusCode

\* DefaultErrorHandler on a context with status code statusCode: the status
\* code afterwards (c.Bytes sets it and writes the header)
DefaultErrorHandler(statusCode, err) ==
    IF err = NoError
    THEN statusCode
    ELSE LET code == CASE err = ErrNotFound   -> 404
                       [] err = ErrBadRequest -> 400
                       [] OTHER               -> 500
         IN  IF statusCode = 0 THEN code ELSE statusCode

\* a.errorHandler(c, err) for the error handler named eh; a handler set with
\* SetErrorHandler is application code that here writes nothing
CallErrorHandler(eh, statusCode, err) ==
    IF eh = "default" THEN DefaultErrorHandler(statusCode, err) ELSE statusCode

NotServing ==
    [op |-> "none", method |-> "GET", path |-> <<>>, matched |-> FALSE,
     ran |-> <<>>, errs |-> <<>>, statusCode |-> 0]

\* App.ServeHTTP for one request on application a, the handler of the matched
\* route returning err: what ran, the errors the error handler was given and
\* the status code of the response
serveHTTP(r, cl, a, method, path, err) ==
    LET found == GetValue(r, method, path)
    IN  IF found.handler = NoHandler
        THEN [op |-> "ServeHTTP", method |-> method, path |-> path,
              matched |-> FALSE, ran |-> <<>>, errs |-> <<ErrNotFound>>,
              statusCode |-> CallErrorHandler(a.errorHandler, 0, ErrNotFound)]
        ELSE LET written == IF err = NoError THEN 200 ELSE 0
             IN  [op |-> "ServeHTTP", method |-> method, path |-> path,
                  matched |-> TRUE, ran |-> cl[found.handler],
                  errs |-> IF err = NoError THEN <<>> ELSE <<err>>,
                  statusCode |-> IF err = NoError THEN written
                                 ELSE CallErrorHandler(a.errorHandler,
                                                       written, err)]

AppInit ==
    /\ trees = << >>
    /\ regs = << >>
    /\ last = NoCall
    /\ walkers = << >>
    /\ apps = << [prefix |-> <<>>, middleware |-> [arr |-> 1, len |-> 0],
                  errorHandler |-> "default"] >>
    /\ backing = << NewArray(MiddlewareCap) >>
    /\ closures = << >>
    /\ calls = << >>
    /\ served = NotServing
    /\ enc = [pc |-> "idle"]
    /\ pool = << >> /\ held = << >>
    /\ ctx = [pc |-> "idle"] /\ reqs = << >>

Building == served = NotServing /\ Len(calls) < MaxCalls

\* a.Use(m), m the next middleware value
Use(a) ==
    /\ Building
    /\ LET m   == Cardinality({i \in 1..Len(calls) : calls[i].op = "Use"}) + 1
           out == GoAppend(backing, apps[a].middleware, m)
       IN  /\ backing' = out.backing
           /\ apps' = [apps EXCEPT ![a].middleware = out.slice]
           /\ calls' = Append(calls, [op |-> "Use", app |-> a, arg |-> m])
    /\ UNCHANGED <<routerVars, closures, served, enc, poolVars, ctx, reqs>>

\* a.Get(path, handler): App.addRoute
Get(a, path) ==
    /\ Building
    /\ LET id           == Len(regs) + 1
           fullPath     == build(apps[a].prefix, path)
           finalHandler == compileMiddleware(
                              Elems(backing, apps[a].middleware),
                              RouteHandler(id))
           out          == AddRoute(trees, "GET", fullPath, id)
       IN  /\ ~out.panicked
           /\ trees' = out.trees
           /\ regs' = Append(regs, [method |-> "GET", path |-> fullPath,
                                    handler |-> id])
           /\ closures' = Append(closures, finalHandler)
           /\ calls' = Append(calls, [op |-> "Get", app |-> a, arg |-> id])
    /\ UNCHANGED <<last, walkers, apps, backing, served, enc, poolVars, ctx, reqs>>

\* a.Group(prefix, fn) up to the call of fn(subApp); what fn does are the
\* calls that follow.  (a.routes, kept for the documentation only, is left
\* out.)
Group(a, prefix) ==
    /\ Building
    /\ Len(apps) < MaxApps
    /\ apps' = Append(apps, [prefix |-> build(apps[a].prefix, prefix),
                             middleware |-> apps[a].middleware,
                             errorHandler |-> apps[a].errorHandler])
    /\ calls' = Append(calls, [op |-> "Group", app |-> a,
                               arg |-> Len(apps) + 1])
    /\ UNCHANGED <<routerVars, backing, closures, served, enc, poolVars, ctx, reqs>>

\* a.SetErrorHandler(handler) on the application
SetErrorHandler ==
    /\ Building
    /\ apps[1].errorHandler = "default"
    /\ apps' = [apps EXCEPT ![1].errorHandler = "custom"]
    /\ calls' = Append(calls, [op |-> "SetErrorHandler", app |-> 1, arg |-> 0])
    /\ UNCHANGED <<routerVars, backing, closures, served, enc, poolVars, ctx, reqs>>

\* the server calls ServeHTTP on the application
ServeHTTP(method, path, err) ==
    /\ served = NotServing
    /\ served' = serveHTTP(trees, closures, apps[1], method, path, err)
    /\ UNCHANGED <<routerVars, apps, backing, closures, calls, enc, poolVars, ctx, reqs>>

\* the response has gone out
Responded ==
    /\ served # NotServing
    /\ served' = NotServing
    /\ UNCHANGED <<routerVars, apps, backing, closures, calls, enc, poolVars, ctx, reqs>>

AppNext ==
    \/ \E a \in 1..Len(apps) : Use(a)
    \/ \E a \in 1..Len(apps), path \in AppPaths : Get(a, path)
    \/ \E a \in 1..Len(apps), prefix \in Prefixes : Group(a, prefix)
    \/ SetErrorHandler
    \/ \E method \in Methods, path \in ServePaths,
          err \in {NoError, ErrBadRequest} : ServeHTTP(method, path, err)
    \/ Responded

AppSpec == AppInit /\ [][AppNext]_vars

(***************************************************************************)
(* The field encoder: writeFieldsDirectJSON and writeFieldsDirectToWriter  *)
(***************************************************************************)
\* var stackBuf [512]byte
StackBufSize == 512

\* n copies of byte c
Repeat(c, n) == [i \in 1..n |-> c]

\* Field values of the constructors String, Int, Bool and Bytes
StringField(key, v) == [Key |-> key, Type |-> "StringType", val |-> v]
IntField(key, v)    == [Key |-> key, Type |-> "IntType", val |-> v]
BoolField(key, v)   == [Key |-> key, Type |-> "BoolType", val |-> v]
BytesField(key, v)  == [Key |-> key, Type |-> "BytesType", val |-> v]

keyName == <<"n","a","m","e">>
keyAge  == <<"a","g","e">>
keyOk   == <<"o","k">>
valAnn  == <<"A","n","n">>

\* a value that does not fit the staging buffer next to its key, and one
\* that does not fit the staging buffer at all
Long510 == Repeat("x", StackBufSize - 2)
Long600 == Repeat("y", StackBufSize + 88)

FieldSet ==
    {StringField(keyName, valAnn), IntField(keyAge, 3), BoolField(keyOk, TRUE),
     StringField(keyName, Long510), BytesField(keyOk, Long600),
     IntField(keyAge, -120)}

FieldSeqs == UNION {[1..n -> FieldSet] : n \in 0..MaxFields}

\* strconv.AppendInt(buf, v, 10): the decimal digits of v, '-' first when
\* v is negative
DigitChars == <<"0","1","2","3","4","5","6","7","8","9">>

RECURSIVE Digits(_)
Digits(v) ==
    IF v < 10 THEN <<DigitChars[v + 1]>>
    ELSE Digits(v \div 10) \o <<DigitChars[(v % 10) + 1]>>

AppendInt(buf, v) ==
    IF v < 0 THEN buf \o <<"-">> \o Digits(0 - v) ELSE buf \o Digits(v)

\* the capacity append gives a slice of capacity old that has to hold needed
\* bytes (the rounding up to an allocation size class is left out)
RECURSIVE growTo(_, _)
growTo(c, needed) ==
    IF c >= needed THEN c ELSE growTo(c + (c + 768) \div 4, needed)

growCap(old, needed) ==
    IF needed <= old THEN old
    ELSE IF needed > 2 * old THEN needed
    ELSE IF old < 256 THEN 2 * old
    ELSE growTo(old, needed)

\* writeFieldsDirectJSON: the loop body for field f on buf
appendField(buf, first, f) ==
    LET sep  == IF first THEN buf ELSE buf \o <<",">>
        key  == sep \o <<"\"">> \o f.Key \o <<"\"", ":">>
    IN  CASE f.Type = "StringType" -> key \o <<"\"">> \o f.val \o <<"\"">>
          [] f.Type = "IntType"    -> AppendInt(key, f.val)
          [] f.Type = "BoolType"   ->
                IF f.val THEN key \o <<"t","r","u","e">>
                ELSE key \o <<"f","a","l","s","e">>
          [] f.Type = "BytesType"  -> key \o <<"\"">> \o f.val \o <<"\"">>
          [] OTHER -> key

RECURSIVE appendFields(_, _, _)
appendFields(buf, fields, i) ==
    IF i > Len(fields) THEN buf
    ELSE appendFields(appendField(buf, i = 1, fields[i]), fields, i + 1)

writeFieldsDirectJSON(fields) ==
    IF Len(fields) = 0
    THEN <<"{", "}">>
    ELSE appendFields(<<"{">>, fields, 1) \o <<"}">>

\* The error a failing sink gives
SinkError == "sink error"

EncIdle == [pc |-> "idle"]

\* w.Write(p) as the write number Len(e.writes) + 1 of the call: it fails
\* when that is the number e.failOn.  writes holds every p handed to the sink
\* with whether the sink took it; werr is what the last Write returned.
sinkWrite(e, p) ==
    LET ok == Len(e.writes) + 1 # e.failOn
    IN  [e EXCEPT !.writes = Append(@, [p |-> p, ok |-> ok]),
                  !.werr = IF ok THEN NoError ELSE SinkError]

\* return err
encReturn(e, err) == [e EXCEPT !.pc = "done", !.err = err]

\* buf = append(buf, p...)
encAppend(e, p) ==
    [e EXCEPT !.buf = @ \o p, !.cap = growCap(@, Len(e.buf) + Len(p))]

\* encodeValue that after a flush goes on with the buffer it has just written
encodeValueNoReset(e, v) ==
    LET q == encAppend(e, <<"\"">>)
    IN  IF Len(q.buf) + Len(v) + 2 > q.cap
        THEN LET w == sinkWrite(q, q.buf)
             IN  IF w.werr # NoError
                 THEN encReturn(w, w.werr)
                 ELSE encAppend(encAppend(w, v), <<"\"">>)
        ELSE encAppend(encAppend(q, v), <<"\"">>)

\* encodeValue that does not look at what the flush returned
encodeValueUnchecked(e, v) ==
    LET q == encAppend(e, <<"\"">>)
    IN  IF Len(q.buf) + Len(v) + 2 > q.cap
        THEN encAppend(encAppend(
                [sinkWrite(q, q.buf) EXCEPT !.buf = <<>>,
                                            !.cap = StackBufSize],
                v), <<"\"">>)
        ELSE encAppend(encAppend(q, v), <<"\"">>)

\* the StringType and BytesType cases of writeFieldsDirectToWriter: the
\* opening quote, the flush when the value and two more bytes do not fit,
\* the value and the closing quote
encodeValue(e, v) ==
    LET q == encAppend(e, <<"\"">>)
    IN  IF Len(q.buf) + Len(v) + 2 > q.cap
        THEN LET w == sinkWrite(q, q.buf)
             IN  IF w.werr # NoError
                 THEN encReturn(w, w.werr)
                 ELSE encAppend(encAppend(
                         [w EXCEPT !.buf = <<>>, !.cap = StackBufSize],
                         v), <<"\"">>)
        ELSE encAppend(encAppend(q, v), <<"\"">>)

\* encodeField that writes the separator before every field
encodeFieldAlwaysComma(e) ==
    LET f   == e.fields[e.i]
        key == encAppend([e EXCEPT !.first = FALSE, !.i = @ + 1],
                         <<",", "\"">> \o f.Key \o <<"\"", ":">>)
    IN  CASE f.Type = "StringType" -> encodeValue(key, f.val)
          [] f.Type = "IntType"    ->
                encAppend(key, AppendInt(<<>>, f.val))
          [] f.Type = "BoolType"   ->
                IF f.val THEN encAppend(key, <<"t","r","u","e">>)
                ELSE encAppend(key, <<"f","a","l","s","e">>)
          [] f.Type = "BytesType"  -> encodeValue(key, f.val)
          [] OTHER -> key

\* one turn of the loop over fields of writeFieldsDirectToWriter
encodeField(e) ==
    LET f   == e.fields[e.i]
        sep == IF e.first THEN e ELSE encAppend(e, <<",">>)
        key == encAppend([sep EXCEPT !.first = FALSE, !.i = @ + 1],
                         <<"\"">> \o f.Key \o <<"\"", ":">>)
    IN  CASE f.Type = "StringType" -> encodeValue(key, f.val)
          [] f.Type = "IntType"    ->
                encAppend(key, AppendInt(<<>>, f.val))
          [] f.Type = "BoolType"   ->
                IF f.val THEN encAppend(key, <<"t","r","u","e">>)
                ELSE encAppend(key, <<"f","a","l","s","e">>)
          [] f.Type = "BytesType"  -> encodeValue(key, f.val)
          [] OTHER -> key

\* the locals of a call that has just been entered
encLocals(fields, failOn) ==
    [pc |-> "loop", fields |-> fields, i |-> 1, first |-> TRUE,
     buf |-> <<>>, cap |-> StackBufSize, writes |-> <<>>,
     failOn |-> failOn, werr |-> NoError, err |-> NoError]

\* encEnter that drops what the write of "{}" returned
encEnterDropsResult(fields, failOn) ==
    LET e == encLocals(fields, failOn)
    IN  IF Len(fields) = 0
        THEN encReturn(sinkWrite(e, <<"{", "}">>), NoError)
        ELSE encAppend(e, <<"{">>)

\* writeFieldsDirectToWriter(w, fields) up to the loop
encEnter(fields, failOn) ==
    LET e == encLocals(fields, failOn)
    IN  IF Len(fields) = 0
        THEN LET w == sinkWrite(e, <<"{", "}">>)
             IN  encReturn(w, w.werr)
        ELSE encAppend(e, <<"{">>)

\* writeFieldsDirectToWriter after the loop
encFinish(e) ==
    LET q == encAppend(e, <<"}">>)
        w == sinkWrite(q, q.buf)
    IN  encReturn(w, w.werr)

EncoderInit ==
    /\ trees = << >> /\ regs = << >> /\ last = NoCall /\ walkers = << >>
    /\ apps = << >> /\ backing = << >> /\ closures = << >>
    /\ calls = << >> /\ served = [op |-> "none"]
    /\ enc = EncIdle
    /\ pool = << >> /\ held = << >>
    /\ ctx = [pc |-> "idle"] /\ reqs = << >>

\* a response method calls writeFieldsDirectToWriter(c.Response, fields) on a
\* sink whose write number failOn fails (0: none does)
Encode(fields, failOn) ==
    /\ enc.pc = "idle"
    /\ enc' = encEnter(fields, failOn)
    /\ UNCHANGED <<routerVars, appVars, poolVars, ctx, reqs>>

EncodeField ==
    /\ enc.pc = "loop" /\ enc.i <= Len(enc.fields)
    /\ enc' = encodeField(enc)
    /\ UNCHANGED <<routerVars, appVars, poolVars, ctx, reqs>>

EncodeFinish ==
    /\ enc.pc = "loop" /\ enc.i > Len(enc.fields)
    /\ enc' = encFinish(enc)
    /\ UNCHANGED <<routerVars, appVars, poolVars, ctx, reqs>>

\* the caller has taken the error
EncodeReturn ==
    /\ enc.pc = "done"
    /\ enc' = EncIdle
    /\ UNCHANGED <<routerVars, appVars, poolVars, ctx, reqs>>

EncoderNext ==
    \/ \E fields \in FieldSeqs, failOn \in 0..MaxFailOn : Encode(fields, failOn)
    \/ EncodeField
    \/ EncodeFinish
    \/ EncodeReturn

EncoderSpec == EncoderInit /\ [][EncoderNext]_vars

(***************************************************************************)
(* The context pool: ContextPool.Acquire and ContextPool.Release           *)
(***************************************************************************)
MaxParams         == 8
DefaultParamsSize == 4

\* A Go map as the set of its keys and the number of entries it has room
\* for: delete leaves the room as it is, make(M, n) gives room for n.
NilMap     == [isNil |-> TRUE, keys |-> {}, room |-> 0]
MakeMap(n) == [isNil |-> FALSE, keys |-> {}, room |-> n]

\* m after m[k] = v for the keys 1..n (a nil map is made first)
WithKeys(m, n) ==
    LET keys == m.keys \cup (1..n)
        card == Cardinality(keys)
    IN  [isNil |-> FALSE, keys |-> keys,
         room |-> IF card > m.room THEN card ELSE m.room]

\* the New function of the sync.Pool: &Context{params: ..., query: ...}
NewContext ==
    [Request |-> "nil", Response |-> "nil", app |-> "nil",
     params |-> MakeMap(DefaultParamsSize),
     query |-> MakeMap(DefaultParamsSize),
     StatusCode |-> 0, headers |-> "nil"]

\* what ServeHTTP and the handler leave in the context of a request whose
\* route bound np parameters, whose URL had nq query keys and whose response
\* has the status code status
useContext(c, np, nq, status) ==
    [Request |-> "request", Response |-> "writer", app |-> "app",
     params |-> IF np = 0 THEN NilMap ELSE WithKeys(MakeMap(0), np),
     query |-> IF nq = 0 THEN c.query ELSE WithKeys(c.query, nq),
     StatusCode |-> status, headers |-> "headers"]

\* releaseContext that makes a new query map already at MaxParams entries
releaseContextOffByOne(c) ==
    [Request |-> "nil", Response |-> "nil", app |-> "nil",
     params |-> NilMap,
     query |-> IF Cardinality(c.query.keys) >= MaxParams
               THEN MakeMap(DefaultParamsSize)
               ELSE [c.query EXCEPT !.keys = {}],
     StatusCode |-> 0, headers |-> "nil"]

\* releaseContext that leaves the status code as the response set it
releaseContextKeepsStatus(c) ==
    [Request |-> "nil", Response |-> "nil", app |-> "nil",
     params |-> NilMap,
     query |-> IF Cardinality(c.query.keys) > MaxParams
               THEN MakeMap(DefaultParamsSize)
               ELSE [c.query EXCEPT !.keys = {}],
     StatusCode |-> c.StatusCode, headers |-> "nil"]

\* ContextPool.Release up to p.pool.Put(c): the context that is put
releaseContext(c) ==
    [Request |-> "nil", Response |-> "nil", app |-> "nil",
     params |-> NilMap,
     query |-> IF Cardinality(c.query.keys) > MaxParams
               THEN MakeMap(DefaultParamsSize)
               ELSE [c.query EXCEPT !.keys = {}],
     StatusCode |-> 0, headers |-> "nil"]

\* s without its element i
RemoveAt(s, i) == SubSeq(s, 1, i - 1) \o SubSeq(s, i + 1, Len(s))

NotHeld == [state |-> "none", c |-> NewContext]

PoolInit ==
    /\ trees = << >> /\ regs = << >> /\ last = NoCall /\ walkers = << >>
    /\ apps = << >> /\ backing = << >> /\ closures = << >>
    /\ calls = << >> /\ served = [op |-> "none"]
    /\ enc = EncIdle
    /\ pool = << >>
    /\ held = [r \in 1..MaxInFlight |-> NotHeld]
    /\ ctx = [pc |-> "idle"] /\ reqs = << >>

InHands == Cardinality({r \in 1..MaxInFlight : held[r].state # "none"})

\* request r calls p.Acquire() and sync.Pool.Get finds the pooled context i
AcquirePooled(r, i) ==
    /\ held[r].state = "none"
    /\ held' = [held EXCEPT ![r] = [state |-> "acquired", c |-> pool[i]]]
    /\ pool' = RemoveAt(pool, i)
    /\ UNCHANGED <<routerVars, appVars, enc, ctx, reqs>>

\* request r calls p.Acquire() and sync.Pool.Get finds nothing and calls New
AcquireNew(r) ==
    /\ held[r].state = "none"
    /\ Len(pool) + InHands < MaxContexts
    /\ held' = [held EXCEPT ![r] = [state |-> "acquired", c |-> NewContext]]
    /\ UNCHANGED <<pool, routerVars, appVars, enc, ctx, reqs>>

\* ServeHTTP and the handler of request r use its context
UseContext(r, np, nq, status) ==
    /\ held[r].state = "acquired"
    /\ held' = [held EXCEPT ![r] = [state |-> "used",
                                    c |-> useContext(@.c, np, nq, status)]]
    /\ UNCHANGED <<pool, routerVars, appVars, enc, ctx, reqs>>

\* the deferred p.Release(c) of request r
Release(r) ==
    /\ held[r].state = "used"
    /\ pool' = Append(pool, releaseContext(held[r].c))
    /\ held' = [held EXCEPT ![r] = NotHeld]
    /\ UNCHANGED <<routerVars, appVars, enc, ctx, reqs>>

\* the garbage collector empties the sync.Pool of the context i
Collect(i) ==
    /\ pool' = RemoveAt(pool, i)
    /\ UNCHANGED <<held, routerVars, appVars, enc, ctx, reqs>>

PoolNext ==
    \/ \E r \in 1..MaxInFlight :
          \/ \E i \in 1..Len(pool) : AcquirePooled(r, i)
          \/ AcquireNew(r)
          \/ \E np \in {0, 1, MaxParams + 1},
                nq \in {0, 1, MaxParams, MaxParams + 1},
                status \in {200, 404} : UseContext(r, np, nq, status)
          \/ Release(r)
    \/ \E i \in 1..Len(pool) : Collect(i)

PoolSpec == PoolInit /\ [][PoolNext]_vars

(***************************************************************************)
(* ServeHTTP with pooling enabled, step by step, for requests served at    *)
(* the same time.  A context is known by its number; pool holds the        *)
(* numbers of the contexts in the sync.Pool, held[c] the requests that     *)
(* have acquired context c and not released it, reqs[r] where request r    *)
(* stands in ServeHTTP.                                                    *)
(***************************************************************************)
Unpooled == 0

Waiting ==
    [pc |-> "idle", path |-> "none", c |-> Unpooled, deferred |-> FALSE,
     err |-> NoError, handlerReturned |-> FALSE, errorHandlerCalls |-> 0,
     errorHandlerReturned |-> FALSE, releases |-> 0]

PoolingInit ==
    /\ trees = << >> /\ regs = << >> /\ last = NoCall /\ walkers = << >>
    /\ apps = << >> /\ backing = << >> /\ closures = << >>
    /\ calls = << >> /\ served = [op |-> "none"]
    /\ enc = EncIdle
    /\ ctx = [pc |-> "idle"]
    /\ pool = << >>
    /\ held = << >>
    /\ reqs = [r \in 1..MaxInFlight |-> Waiting]

\* an Acquire that hands out the pooled context at position i and leaves it
\* in the pool
ContextPoolAcquireShared(p, i) == [c |-> p[i], pool |-> p]

\* p.pool.Get() that finds the pooled context at position i: the context
\* and the pool without it
ContextPoolAcquire(p, i) == [c |-> p[i], pool |-> RemoveAt(p, i)]

\* p.pool.Put(c): a sync.Pool keeps no order, so the pool is written with
\* its context numbers ascending (a context put twice is in it twice)
ContextPoolRelease(p, c) ==
    LET below == Cardinality({i \in 1..Len(p) : p[i] <= c})
    IN  SubSeq(p, 1, below) \o <<c>> \o SubSeq(p, below + 1, Len(p))

\* The ServeHTTP that acquires its context before anything else is called
\* for request r
ServeAcquiresFirst(r) ==
    /\ reqs[r].pc = "idle"
    /\ reqs' = [reqs EXCEPT ![r] =
                  [@ EXCEPT !.pc = "acquireFirst"]]
    /\ UNCHANGED <<pool, held, routerVars, appVars, enc, ctx>>

\* handler, params := a.router.GetValue(...): no handler, the handler of a
\* static route (params == nil) or the handler of a route with parameters;
\* query says whether r.URL.RawQuery != "".  The ServeHTTP that looks the
\* route up first makes, without a handler, a context of its own for the
\* error handler; the other one has acquired its context by now.
ServeGetValue(r, route, query) ==
    /\ reqs[r].pc \in {"idle", "lookup"}
    /\ reqs' = [reqs EXCEPT ![r] =
                  [@ EXCEPT !.path = IF route = "none" THEN "not found"
                                     ELSE IF route = "static" /\ ~query
                                     THEN "fast" ELSE "slow",
                            !.pc = IF route = "none" THEN "errorHandler"
                                   ELSE IF reqs[r].pc = "lookup"
                                   THEN "handler" ELSE "acquire",
                            !.err = IF route = "none" THEN ErrNotFound
                                    ELSE NoError]]
    /\ UNCHANGED <<pool, held, routerVars, appVars, enc, ctx>>

\* c = a.contextPool.Acquire(); defer a.contextPool.Release(c), where Get
\* finds the pooled context at position i
ServeAcquirePooled(r, i) ==
    /\ reqs[r].pc \in {"acquire", "acquireFirst"}
    /\ LET got == ContextPoolAcquire(pool, i)
       IN  /\ pool' = got.pool
           /\ held' = [held EXCEPT ![got.c] = @ \cup {r}]
           /\ reqs' = [reqs EXCEPT ![r] =
                         [@ EXCEPT !.c = got.c, !.deferred = TRUE,
                                   !.pc = IF reqs[r].pc = "acquireFirst"
                                          THEN "lookup" ELSE "handler"]]
    /\ UNCHANGED <<routerVars, appVars, enc, ctx>>

\* the same where Get finds nothing and calls New
ServeAcquireNew(r) ==
    /\ reqs[r].pc \in {"acquire", "acquireFirst"}
    /\ Len(held) < MaxContexts
    /\ held' = Append(held, {r})
    /\ reqs' = [reqs EXCEPT ![r] =
                  [@ EXCEPT !.c = Len(held) + 1, !.deferred = TRUE,
                            !.pc = IF reqs[r].pc = "acquireFirst"
                                   THEN "lookup" ELSE "handler"]]
    /\ UNCHANGED <<pool, routerVars, appVars, enc, ctx>>

\* err := handler(c) returns, on the fast path (params == nil and no query)
\* or on the slow path
ServeHandlerReturns(r, err) ==
    /\ reqs[r].pc = "handler"
    /\ reqs' = [reqs EXCEPT ![r] =
                  [@ EXCEPT !.err = err, !.handlerReturned = TRUE,
                            !.pc = IF err # NoError THEN "errorHandler"
                                   ELSE "return"]]
    /\ UNCHANGED <<pool, held, routerVars, appVars, enc, ctx>>

\* a.errorHandler(c, err) is called and returns
ServeErrorHandlerReturns(r) ==
    /\ reqs[r].pc = "errorHandler"
    /\ reqs' = [reqs EXCEPT ![r] =
                  [@ EXCEPT !.errorHandlerCalls = @ + 1,
                            !.errorHandlerReturned = TRUE,
                            !.pc = "return"]]
    /\ UNCHANGED <<pool, held, routerVars, appVars, enc, ctx>>

\* ServeHTTP returns and the deferred a.contextPool.Release(c) runs
ServeReturns(r) ==
    /\ reqs[r].pc = "return"
    /\ IF reqs[r].deferred
       THEN /\ pool' = ContextPoolRelease(pool, reqs[r].c)
            /\ held' = [held EXCEPT ![reqs[r].c] = @ \ {r}]
            /\ reqs' = [reqs EXCEPT ![r] =
                          [@ EXCEPT !.releases = @ + 1, !.pc = "done"]]
       ELSE /\ reqs' = [reqs EXCEPT ![r] = [@ EXCEPT !.pc = "done"]]
            /\ UNCHANGED <<pool, held>>
    /\ UNCHANGED <<routerVars, appVars, enc, ctx>>

\* the server calls ServeHTTP for the next request
ServeNextRequest(r) ==
    /\ reqs[r].pc = "done"
    /\ reqs' = [reqs EXCEPT ![r] = Waiting]
    /\ UNCHANGED <<pool, held, routerVars, appVars, enc, ctx>>

\* the garbage collector empties the sync.Pool of the context at position i
PoolCollects(i) ==
    /\ pool' = RemoveAt(pool, i)
    /\ UNCHANGED <<held, reqs, routerVars, appVars, enc, ctx>>

PoolingNext ==
    \/ \E r \in 1..MaxInFlight :
          \/ ServeAcquiresFirst(r)
          \/ \E route \in {"none", "static", "dynamic"}, query \in BOOLEAN :
                ServeGetValue(r, route, query)
          \/ \E i \in 1..Len(pool) : ServeAcquirePooled(r, i)
          \/ ServeAcquireNew(r)
          \/ \E err \in {NoError, ErrBadRequest} :
                ServeHandlerReturns(r, err)
          \/ ServeErrorHandlerReturns(r)
          \/ ServeReturns(r)
          \/ ServeNextRequest(r)
    \/ \E i \in 1..Len(pool) : PoolCollects(i)

PoolingSpec == PoolingInit /\ [][PoolingNext]_vars

(***************************************************************************)
(* Context: the response methods, on a response writer that records the    *)
(* calls made on it                                                        *)
(***************************************************************************)
ContentTypeJSON == "application/json; charset=utf-8"
ContentTypeText == "text/plain; charset=utf-8"

ErrInvalidRedirect == "invalid redirect code"

\* the pre-serialized error bodies
errNotFoundResponse ==
    <<"{","\"","e","r","r","o","r","\"",":","\"",
      "N","o","t"," ","F","o","u","n","d","\"","}">>
errBadRequestResponse ==
    <<"{","\"","e","r","r","o","r","\"",":","\"",
      "B","a","d"," ","R","e","q","u","e","s","t","\"","}">>
errInternalServerResponse ==
    <<"{","\"","e","r","r","o","r","\"",":","\"",
      "I","n","t","e","r","n","a","l"," ","S","e","r","v","e","r"," ",
      "E","r","r","o","r","\"","}">>

\* keys and bodies handlers give
keyHi    == <<"h","i">>
keyEmpty == <<"e","m","p","t","y">>
bodyOK   == <<"O","K">>

\* var precomputedResponses (the entries whose keys the handlers here use
\* or could use: a key that is in the map, one whose response is empty)
precomputedResponses ==
    (keyOk :> bodyOK) @@ (keyEmpty :> <<>>)
      @@ (<<"n","u","l","l">> :> <<"n","u","l","l">>)
      @@ (<<"o","n","e">> :> <<"1">>)

\* a context that ServeHTTP has just set up, with its response writer:
\* out is the sequence of calls made on c.Response so far
FreshContext ==
    [StatusCode |-> 0, contentType |-> "", out |-> <<>>]

\* c.Response.WriteHeader(status) and c.Response.Write(b)
WriteHeader(c, status) ==
    [c EXCEPT !.out = Append(@, [call |-> "WriteHeader", arg |-> status])]
Write(c, b) ==
    [c EXCEPT !.out = Append(@, [call |-> "Write", arg |-> b])]

\* if c.headers.Get("Content-Type") == "" { c.headers.Set(...) }
defaultContentType(c, contentType) ==
    IF c.contentType = "" THEN [c EXCEPT !.contentType = contentType] ELSE c

\* c.Bytes(status, contentType, data)
ContextBytes(c, status, contentType, data) ==
    Write(WriteHeader([c EXCEPT !.StatusCode = status,
                                !.contentType = contentType], status),
          data)

\* c.StringBytes(status, b)
StringBytes(c, status, b) ==
    Write(WriteHeader(defaultContentType([c EXCEPT !.StatusCode = status],
                                         ContentTypeText), status),
          b)

\* c.Text(status, b)
Text(c, status, b) == StringBytes(c, status, b)

\* encoding/base64 on the bytes of the keys
Base64Chars ==
    <<"A","B","C","D","E","F","G","H","I","J","K","L","M","N","O","P","Q",
      "R","S","T","U","V","W","X","Y","Z","a","b","c","d","e","f","g","h",
      "i","j","k","l","m","n","o","p","q","r","s","t","u","v","w","x","y",
      "z","0","1","2","3","4","5","6","7","8","9","+","/">>
ByteOf ==
    ("e" :> 101) @@ ("h" :> 104) @@ ("i" :> 105) @@ ("k" :> 107)
      @@ ("l" :> 108) @@ ("m" :> 109) @@ ("n" :> 110) @@ ("o" :> 111)
      @@ ("p" :> 112) @@ ("t" :> 116) @@ ("u" :> 117) @@ ("y" :> 121)

RECURSIVE Base64(_)
Base64(b) ==
    IF Len(b) = 0 THEN <<>>
    ELSE LET n == IF Len(b) >= 3 THEN 3 ELSE Len(b)
             v == ByteOf[b[1]] * 65536
                    + (IF n >= 2 THEN ByteOf[b[2]] ELSE 0) * 256
                    + (IF n = 3 THEN ByteOf[b[3]] ELSE 0)
         IN  <<Base64Chars[(v \div 262144) + 1],
               Base64Chars[((v \div 4096) % 64) + 1],
               IF n >= 2 THEN Base64Chars[((v \div 64) % 64) + 1] ELSE "=",
               IF n = 3 THEN Base64Chars[(v % 64) + 1] ELSE "=">>
               \o Base64(SubSeq(b, n + 1, Len(b)))

\* c.JSON(status, v) for a v of type []byte: the default case of the type
\* switch, where json.Marshal gives the base64 text of v in quotes
JSON(c, status, v) ==
    Write(WriteHeader(defaultContentType([c EXCEPT !.StatusCode = status],
                                         ContentTypeJSON), status),
          <<"\"">> \o Base64(v) \o <<"\"">>)

\* c.FastText(status, key)
FastText(c, status, key) ==
    LET h == WriteHeader(defaultContentType(
                            [c EXCEPT !.StatusCode = status],
                            ContentTypeText), status)
    IN  IF key \in DOMAIN precomputedResponses
        THEN Write(h, precomputedResponses[key])
        ELSE StringBytes(h, status, key)

\* c.FastJSON(status, key)
FastJSON(c, status, key) ==
    LET h == WriteHeader(defaultContentType(
                            [c EXCEPT !.StatusCode = status],
                            ContentTypeJSON), status)
    IN  IF key \in DOMAIN precomputedResponses
        THEN Write(h, precomputedResponses[key])
        ELSE JSON(h, status, key)

\* writeFieldsDirectToWriter(w, fields) on a sink that takes every write,
\* run to its return: the locals at the return
RECURSIVE encRun(_)
encRun(e) ==
    IF e.pc = "done" THEN e
    ELSE IF e.i <= Len(e.fields) THEN encRun(encodeField(e))
    ELSE encFinish(e)

\* c.JSONFields(status, fields...)
JSONFields(c, status, fields) ==
    LET h == WriteHeader(defaultContentType(
                            [c EXCEPT !.StatusCode = status],
                            ContentTypeJSON), status)
        e == encRun(encEnter(fields, 0))
    IN  [h EXCEPT !.out = @ \o [k \in 1..Len(e.writes) |->
                                   [call |-> "Write", arg |-> e.writes[k].p]]]

\* c.OK(fields...) and c.NotFound(fields...)
OK(c, fields)       == JSONFields(c, 200, fields)
NotFound(c, fields) == JSONFields(c, 404, fields)

\* c.Status(code)
Status(c, code) == [c EXCEPT !.StatusCode = code]

\* c.NoContent()
NoContent(c) == WriteHeader([c EXCEPT !.StatusCode = 204], 204)

\* c.Redirect(code, url): the context afterwards and the error returned
Redirect(c, code) ==
    IF code < 300 \/ code > 308
    THEN [c |-> c, err |-> ErrInvalidRedirect]
    ELSE [c |-> WriteHeader(c, code), err |-> NoError]

\* the body DefaultErrorHandler's switch chooses
errorBody(err) ==
    CASE err = ErrNotFound   -> errNotFoundResponse
      [] err = ErrBadRequest -> errBadRequestResponse
      [] OTHER               -> errInternalServerResponse

\* DefaultErrorHandler(c, err) on the context c with its writer
DefaultErrorHandlerOn(c, err) ==
    IF err = NoError THEN c
    ELSE IF c.StatusCode = 0
    THEN ContextBytes(c, DefaultErrorHandler(0, err), ContentTypeJSON,
                      errorBody(err))
    ELSE c

\* The calls a handler makes on its context
flushFields == <<StringField(keyName, Long510)>>
exampleFields ==
    <<StringField(keyName, valAnn), IntField(keyAge, 3), BoolField(keyOk, TRUE)>>

ResponseCalls ==
    {[method |-> "Bytes", status |-> 200, arg |-> keyHi],
     [method |-> "StringBytes", status |-> 200, arg |-> keyHi],
     [method |-> "StringBytes", status |-> 404, arg |-> keyHi],
     [method |-> "Text", status |-> 200, arg |-> keyHi],
     [method |-> "FastText", status |-> 200, arg |-> keyOk],
     [method |-> "FastText", status |-> 200, arg |-> keyEmpty],
     [method |-> "FastText", status |-> 200, arg |-> keyHi],
     [method |-> "FastJSON", status |-> 200, arg |-> keyOk],
     [method |-> "FastJSON", status |-> 200, arg |-> keyHi],
     [method |-> "JSONFields", status |-> 200, arg |-> <<>>],
     [method |-> "JSONFields", status |-> 200, arg |-> exampleFields],
     [method |-> "JSONFields", status |-> 200, arg |-> flushFields],
     [method |-> "OK", status |-> 200, arg |-> exampleFields],
     [method |-> "NotFound", status |-> 404, arg |-> <<>>]}

OtherCalls ==
    {[method |-> "Status", status |-> 200, arg |-> <<>>],
     [method |-> "Status", status |-> 404, arg |-> <<>>],
     [method |-> "NoContent", status |-> 204, arg |-> <<>>],
     [method |-> "Redirect", status |-> 302, arg |-> <<>>],
     [method |-> "Redirect", status |-> 200, arg |-> <<>>]}

\* the context after the call k, and the error the call returned
callOn(c, k) ==
    LET ok(d) == [c |-> d, err |-> NoError]
    IN  CASE k.method = "Bytes" ->
                ok(ContextBytes(c, k.status, ContentTypeText, k.arg))
          [] k.method = "StringBytes" -> ok(StringBytes(c, k.status, k.arg))
          [] k.method = "Text"        -> ok(Text(c, k.status, k.arg))
          [] k.method = "FastText"    -> ok(FastText(c, k.status, k.arg))
          [] k.method = "FastJSON"    -> ok(FastJSON(c, k.status, k.arg))
          [] k.method = "JSONFields"  -> ok(JSONFields(c, k.status, k.arg))
          [] k.method = "OK"          -> ok(OK(c, k.arg))
          [] k.method = "NotFound"    -> ok(NotFound(c, k.arg))
          [] k.method = "Status"      -> ok(Status(c, k.status))
          [] k.method = "NoContent"   -> ok(NoContent(c))
          [] OTHER                    -> Redirect(c, k.status)

\* ctx: the context of the request being served, the calls its handler has
\* made and the error the handler returned
NoRequest == [pc |-> "idle"]

ResponseInit ==
    /\ trees = << >> /\ regs = << >> /\ last = NoCall /\ walkers = << >>
    /\ apps = << >> /\ backing = << >> /\ closures = << >>
    /\ calls = << >> /\ served = [op |-> "none"]
    /\ enc = EncIdle
    /\ pool = << >> /\ held = << >>
    /\ ctx = NoRequest /\ reqs = << >>

\* ServeHTTP has found the handler and calls it with a context
HandlerEntered ==
    /\ ctx.pc = "idle"
    /\ ctx' = [pc |-> "handler", c |-> FreshContext, called |-> <<>>,
               err |-> NoError, before |-> FreshContext]
    /\ UNCHANGED <<routerVars, appVars, enc, poolVars, reqs>>

\* the handler calls a method of its context
HandlerCalls(k) ==
    /\ ctx.pc = "handler"
    /\ Len(ctx.called) < MaxResponses
    /\ ctx' = [ctx EXCEPT !.c = callOn(ctx.c, k).c,
                          !.called = Append(@, k)]
    /\ UNCHANGED <<routerVars, appVars, enc, poolVars, reqs>>

\* the handler returns err to ServeHTTP
HandlerReturns(err) ==
    /\ ctx.pc = "handler"
    /\ ctx' = [ctx EXCEPT !.pc = "returned", !.err = err]
    /\ UNCHANGED <<routerVars, appVars, enc, poolVars, reqs>>

\* if err != nil { a.errorHandler(c, err) }, with the default error handler
ErrorHandled ==
    /\ ctx.pc = "returned"
    /\ ctx' = [ctx EXCEPT !.pc = "done",
                          !.before = ctx.c,
                          !.c = IF ctx.err # NoError
                                THEN DefaultErrorHandlerOn(ctx.c, ctx.err)
                                ELSE ctx.c]
    /\ UNCHANGED <<routerVars, appVars, enc, poolVars, reqs>>

\* ServeHTTP returns
RequestDone ==
    /\ ctx.pc = "done"
    /\ ctx' = NoRequest
    /\ UNCHANGED <<routerVars, appVars, enc, poolVars, reqs>>

ResponseNext ==
    \/ HandlerEntered
    \/ \E k \in ResponseCalls \cup OtherCalls : HandlerCalls(k)
    \/ \E err \in {NoError, ErrNotFound, ErrBadRequest, ErrInvalidRedirect} :
          HandlerReturns(err)
    \/ ErrorHandled
    \/ RequestDone

ResponseSpec == ResponseInit /\ [][ResponseNext]_vars

(***************************************************************************)
(* What the route syntax means (section 6 of the specification): the       *)
(* reading of a route path as a pattern, independent of the trie.          *)
(***************************************************************************)
Markers == {":", "*"}

\* Does request path req instantiate route, and with which bindings:
\* ':name' stands for a non-empty run of bytes without '/', '*name' for the
\* non-empty remainder, every other byte for itself.
RECURSIVE Match(_, _)
Match(route, req) ==
    LET fail == [ok |-> FALSE, entries |-> {}]
    IN  IF Len(route) = 0
        THEN [ok |-> Len(req) = 0, entries |-> {}]
        ELSE IF route[1] = ":"
        THEN LET nameEnd == ScanTo(route, 1, {"/"})
                 valEnd  == ScanTo(req, 0, {"/"})
                 rest    == Match(From(route, nameEnd), From(req, valEnd))
             IN  IF valEnd = 0 \/ ~rest.ok
                 THEN fail
                 ELSE [ok |-> TRUE,
                       entries |-> rest.entries \cup
                                   {<<SubSeq(route, 2, nameEnd), Upto(req, valEnd)>>}]
        ELSE IF route[1] = "*"
        THEN IF Len(req) = 0
             THEN fail
             ELSE [ok |-> TRUE, entries |-> {<<From(route, 1), req>>}]
        ELSE IF Len(req) > 0 /\ req[1] = route[1]
        THEN Match(Tail(route), Tail(req))
        ELSE fail

\* The result a request that instantiates a route is to get
Bound(handler, entries) ==
    Result(handler, [isNil |-> FALSE, entries |-> entries])

\* The handler now registered for method and route path (the last one given)
CurrentHandler(method, path) ==
    LET I == {i \in 1..Len(regs) :
                regs[i].method = method /\ regs[i].path = path}
    IN  IF I = {} THEN NoHandler
        ELSE regs[CHOOSE i \in I : \A k \in I : k <= i].handler

\* Two route paths conflict when, where they first differ, one of them has a
\* ':' or '*', or they differ inside the name of a parameter or wildcard.
Conflict(a, b) ==
    LET i == CommonPrefix(a, b, 0)
        markerAt(s) == i < Len(s) /\ s[i + 1] \in Markers
        nameEnds(s) == i = Len(s) \/ s[i + 1] = "/"
        inName == \E k \in 1..i :
                     /\ a[k] \in Markers
                     /\ \A q \in k..i : a[q] # "/"
    IN  /\ a # b
        /\ \/ markerAt(a)
           \/ markerAt(b)
           \/ inName /\ ~(nameEnds(a) /\ nameEnds(b))

NoConflicts ==
    \A i, k \in 1..Len(regs) :
        regs[i].method = regs[k].method => ~Conflict(regs[i].path, regs[k].path)

OnlyRoute(path) == Len(regs) = 1 /\ regs[1].path = path

\* Every request path of ReqPaths that instantiates the only route resolves
\* to its handler with the bindings of the match.
OnlyRouteResolves ==
    \A p \in ReqPaths :
        LET mt == Match(regs[1].path, p)
        IN  mt.ok => GetValue(trees, regs[1].method, p)
                        = Bound(regs[1].handler, mt.entries)

(***************************************************************************)
(* Claims                                                                  *)
(***************************************************************************)
\* C1: when no two registered paths conflict at a parameter or wildcard
\* position, every request path that instantiates a registered route resolves,
\* under the route's method, to the route's handler with every name bound to
\* the substring that replaced it.
C1_RegisteredRoutesResolve ==
    NoConflicts =>
        \A i \in 1..Len(regs) : \A p \in ReqPaths :
            LET mt == Match(regs[i].path, p)
            IN  mt.ok => GetValue(trees, regs[i].method, p)
                            = Bound(CurrentHandler(regs[i].method, regs[i].path),
                                    mt.entries)

\* C2: with '/users/:id' the only route, '/users/42' resolves to its handler
\* with id = "42", and so does every path that puts one segment for ':id'.
C2_TrailingParamBinds ==
    OnlyRoute(usersId) =>
        /\ GetValue(trees, regs[1].method, users42)
              = Bound(regs[1].handler, {<< <<"i","d">>, <<"4","2">> >>})
        /\ OnlyRouteResolves

\* C3: with '/files/*rest' the only route, '/files/a/b/c' resolves to its
\* handler with rest = "a/b/c": the wildcard binds the whole remainder.
C3_WildcardBindsRemainder ==
    OnlyRoute(filesRest) =>
        /\ GetValue(trees, regs[1].method, filesABC)
              = Bound(regs[1].handler,
                      {<< <<"r","e","s","t">>, <<"a","/","b","/","c">> >>})
        /\ OnlyRouteResolves

\* C4: '/users/:id/posts' registers without a panic, and '/users/42/posts'
\* then resolves to its handler with id = "42", the segment up to the next '/'.
C4_ParamThenStatic ==
    OnlyRoute(usersIdPosts) =>
        /\ GetValue(trees, regs[1].method, users42Posts)
              = Bound(regs[1].handler, {<< <<"i","d">>, <<"4","2">> >>})
        /\ OnlyRouteResolves

\* C5: a lookup under method m returns a handler only if a route that the
\* request path instantiates was registered under m itself; a path that is
\* registered under other methods only gives no match under m.
C5_MethodIsolation ==
    \A m \in Methods : \A p \in ReqPaths :
        GetValue(trees, m, p).handler # NoHandler =>
            \E i \in 1..Len(regs) :
                regs[i].method = m /\ Match(regs[i].path, p).ok

C7_BadPathPanicsUntouched ==
    [][(/\ last'.op = "AddRoute"
        /\ Len(last'.path) = 0 \/ last'.path[1] # "/") =>
          /\ last'.panicked
          /\ DOMAIN trees' = DOMAIN trees
          /\ trees' = trees
          /\ regs' = regs
          /\ \A m2 \in Methods : \A p \in ReqPaths :
                GetValue(trees', m2, p) = GetValue(trees, m2, p)]_vars

\* C7 witness: AddRoute("x") has panicked on a router that holds a route
\* under another method only.
C7_Witness ==
    /\ last.op = "AddRoute" /\ last.panicked /\ last.path = noSlash
    /\ Len(regs) > 0
    /\ last.method \notin DOMAIN trees

\* every node of the tree below n, n included
RECURSIVE NodesOf(_)
NodesOf(n) ==
    {n} \cup UNION {NodesOf(n.children[j]) : j \in 1..Len(n.children)}

\* the bytes that occur in request paths
Bytes == UNION {{p[j] : j \in 1..Len(p)} : p \in ReqPaths}

\* C8: at every node of every tree and for every next byte, the lookup takes
\* the child keyed by that byte if there is one, otherwise the node's
\* paramNode child (a child that begins with ':') if it has one at any
\* position, otherwise its wildcardNode child (a child that begins with '*')
\* if it has one at any position; so with '/users/new' registered
\* before '/users/:id', '/users/42' resolves to the ':id' route.
C8_ChildChoiceByKind ==
    /\ \A m \in DOMAIN trees : \A n \in NodesOf(trees[m]) : \A c \in Bytes :
          LET keyed    == \E j \in 1..Len(n.indices) : n.indices[j] = c
              hasKind(t) == \E j \in 1..Len(n.children) :
                               /\ n.children[j].nodeType = t
                               /\ n.children[j].path[1] \in Markers
              next     == childFor(n, c)
          IN  /\ keyed => next.kind = "static" /\ n.indices[next.index] = c
              /\ (~keyed /\ hasKind("paramNode")) =>
                    /\ next.kind = "param"
                    /\ n.children[next.index].nodeType = "paramNode"
              /\ (~keyed /\ ~hasKind("paramNode") /\ hasKind("wildcardNode")) =>
                    /\ next.kind = "wildcard"
                    /\ n.children[next.index].nodeType = "wildcardNode"
    /\ \A i, k \in 1..Len(regs) :
          (/\ i < k
           /\ regs[i].method = regs[k].method
           /\ regs[i].path = usersNew /\ regs[k].path = usersId
           /\ \A o \in 1..Len(regs) : o \in {i, k}) =>
              GetValue(trees, regs[k].method, users42)
                 = Bound(regs[k].handler, {<< <<"i","d">>, <<"4","2">> >>})

\* C9: when a registered route q has a parameter or wildcard (at byte j)
\* where a registered route s of the same method, equal to q before that
\* byte, has a static byte, a request that
\* instantiates q but continues with that static byte of s, and that no
\* registered route through that byte matches, gets no match and no
\* bindings: the lookup does not go back to the parameter or wildcard.
C9_NoBacktracking ==
    \A i \in 1..Len(regs) : \A j \in 1..Len(regs[i].path) :
        regs[i].path[j] \in Markers =>
            \A k \in 1..Len(regs) :
                LET m   == regs[i].method
                    q   == regs[i].path
                    s   == regs[k].path
                    pre == j - 1
                IN  (/\ regs[k].method = m
                     /\ pre < Len(s) /\ s[pre + 1] \notin Markers
                     /\ Upto(s, pre) = Upto(q, pre))
                    => \A p \in ReqPaths :
                          (/\ Len(p) > pre
                           /\ Upto(p, pre + 1) = Upto(s, pre + 1)
                           /\ Match(q, p).ok
                           /\ \A o \in 1..Len(regs) :
                                 (/\ regs[o].method = m
                                  /\ Len(regs[o].path) > pre
                                  /\ Upto(regs[o].path, pre + 1)
                                        = Upto(p, pre + 1))
                                 => ~Match(regs[o].path, p).ok)
                          => GetValue(trees, m, p) = NoMatch

\* C9 witness: with '/users/:id' and '/users/new' registered under one
\* method, the lookup of '/users/news' has returned no match.
C9_Witness ==
    /\ \E i, k \in 1..Len(regs) :
          /\ regs[i].path = usersId /\ regs[k].path = usersNew
          /\ regs[i].method = last.method /\ regs[k].method = last.method
    /\ last.op = "GetValue" /\ last.path = usersNews
    /\ last.result = NoMatch

\* C10: two routes of one method that meet at a position where one has a
\* ':' or '*' and the other a different byte are accepted or rejected alike
\* in both orders of registration, and when accepted every request resolves
\* to the same handler and bindings in both orders.
C10_ConflictOrderIndependent ==
    (/\ Len(regs) = 2
     /\ regs[1].method = regs[2].method
     /\ LET i == CommonPrefix(regs[1].path, regs[2].path, 0)
        IN  /\ i < Len(regs[1].path) /\ i < Len(regs[2].path)
            /\ regs[1].path[i + 1] \in Markers \/ regs[2].path[i + 1] \in Markers)
    => LET m      == regs[1].method
           first  == AddRoute(<< >>, m, regs[2].path, regs[2].handler)
           second == AddRoute(first.trees, m, regs[1].path, regs[1].handler)
       IN  /\ ~first.panicked /\ ~second.panicked
           /\ \A p \in ReqPaths :
                 GetValue(second.trees, m, p) = GetValue(trees, m, p)

\* C11: a lookup never changes the router.  Every step of every lookup, with
\* other lookups in flight at any position, leaves every tree (each node's
\* path, indices, children, handlers, priority, nodeType and paramName) as it
\* was; a lookup that is in its walk loop can always take its next turn,
\* whatever the other lookups are doing; and what a lookup returns is what
\* GetValue gives for its method and path on the router as built.
C11_LookupLeavesRouterUnchanged ==
    [][/\ trees' = trees
       /\ \A w \in 1..MaxLookups :
             /\ walkers[w].pc = "walk" => ENABLED LookupTurn(w)
             /\ walkers'[w].pc = "done" =>
                   walkers'[w].result
                      = GetValue(trees, walkers'[w].method, walkers'[w].path)
      ]_vars

\* C11 witness: on a router with two routes, one lookup has returned a match
\* with a bound parameter while another lookup is inside the tree, in its
\* walk loop below the root.
C11_Witness ==
    /\ Len(regs) = 2
    /\ \E w, v \in 1..MaxLookups :
          /\ walkers[w].pc = "done"
          /\ walkers[w].result.handler # NoHandler
          /\ walkers[w].result.params.entries # {}
          /\ walkers[v].pc = "walk" /\ Len(walkers[v].at) > 0

\* C12: when the router gives no handler for a request's method and path,
\* ServeHTTP runs no route handler and no middleware, gives the application's
\* error handler ErrNotFound exactly once and nothing else, and with the
\* default error handler the response has status 404.
C12_MissIsNotFound ==
    (/\ served.op = "ServeHTTP"
     /\ GetValue(trees, served.method, served.path).handler = NoHandler)
    => /\ ~served.matched
       /\ served.ran = <<>>
       /\ served.errs = <<ErrNotFound>>
       /\ apps[1].errorHandler = "default" => served.statusCode = 404

\* C12 witness: a path that is registered under GET has been requested under
\* POST and answered 404 by the default error handler.
C12_Witness ==
    /\ served.op = "ServeHTTP" /\ served.method = "POST"
    /\ \E i \in 1..Len(regs) : regs[i].path = served.path
    /\ apps[1].errorHandler = "default"
    /\ served.errs = <<ErrNotFound>> /\ served.statusCode = 404

\* the bytes the sink took, over all writes of the call, in order
RECURSIVE Delivered(_)
Delivered(writes) ==
    IF writes = <<>> THEN <<>>
    ELSE LET n == Len(writes)
         IN  Delivered(SubSeq(writes, 1, n - 1))
                \o (IF writes[n].ok THEN writes[n].p ELSE <<>>)

\* the value of a field as JSON text: a string or bytes value between double
\* quotes, an integer in decimal, a boolean as true or false
ValueText(f) ==
    CASE f.Type \in {"StringType", "BytesType"} -> <<"\"">> \o f.val \o <<"\"">>
      [] f.Type = "IntType" /\ f.val = 3    -> <<"3">>
      [] f.Type = "IntType" /\ f.val = -120 -> <<"-","1","2","0">>
      [] f.Type = "BoolType" /\ f.val       -> <<"t","r","u","e">>
      [] f.Type = "BoolType" /\ ~f.val      -> <<"f","a","l","s","e">>

\* "key":value
EntryText(f) == <<"\"">> \o f.Key \o <<"\"", ":">> \o ValueText(f)

\* the entries of fields[i..], each but the first after a ','
RECURSIVE EntriesFrom(_, _)
EntriesFrom(fields, i) ==
    IF i > Len(fields) THEN <<>>
    ELSE (IF i = 1 THEN <<>> ELSE <<",">>) \o EntryText(fields[i])
            \o EntriesFrom(fields, i + 1)

annFields ==
    <<StringField(keyName, valAnn), IntField(keyAge, 3), BoolField(keyOk, TRUE)>>

annJSON ==
    <<"{","\"","n","a","m","e","\"",":","\"","A","n","n","\"",",",
      "\"","a","g","e","\"",":","3",",",
      "\"","o","k","\"",":","t","r","u","e","}">>

\* C13: for every non-empty sequence of fields, what the encoder has
\* delivered to the sink when it returns without error is '{', then one
\* "key":value entry per field in input order with a single ',' between
\* entries, then '}'; String(name,Ann), Int(age,3), Bool(ok,true) give
\* exactly {"name":"Ann","age":3,"ok":true}.
C13_ObjectInFieldOrder ==
    (enc.pc = "done" /\ enc.err = NoError /\ Len(enc.fields) > 0) =>
        /\ Delivered(enc.writes)
              = <<"{">> \o EntriesFrom(enc.fields, 1) \o <<"}">>
        /\ enc.fields = annFields => Delivered(enc.writes) = annJSON

\* C13 witness: the encoder has returned from the three fields of the example
\* with the sink holding the example's text.
C13_Witness ==
    /\ enc.pc = "done" /\ enc.err = NoError
    /\ enc.fields = annFields
    /\ Delivered(enc.writes) = annJSON

\* C14: flushing does not alter the content: whenever
\* writeFieldsDirectToWriter returns without error, the chunks it wrote,
\* concatenated, are the buffer writeFieldsDirectJSON gives for the same
\* fields, however many flushes of the staging buffer there were.
C14_FlushKeepsContent ==
    (enc.pc = "done" /\ enc.err = NoError) =>
        Delivered(enc.writes) = writeFieldsDirectJSON(enc.fields)

\* C14 witness: a call that flushed twice before its final write has returned.
C14_Witness ==
    /\ enc.pc = "done" /\ enc.err = NoError
    /\ Len(enc.writes) = 3
    /\ Delivered(enc.writes) = writeFieldsDirectJSON(enc.fields)

\* C15: encoding no fields hands the sink exactly the two bytes '{}' in one
\* write and returns what that write returned.
C15_EmptyObject ==
    (enc.pc = "done" /\ Len(enc.fields) = 0) =>
        /\ Len(enc.writes) = 1
        /\ enc.writes[1].p = <<"{", "}">>
        /\ enc.err = (IF enc.writes[1].ok THEN NoError ELSE SinkError)

\* C15 witness: the encoder has returned the sink's error from a call with
\* no fields.
C15_Witness ==
    /\ enc.pc = "done" /\ Len(enc.fields) = 0
    /\ enc.err = SinkError /\ Len(enc.writes) = 1

\* C16: the encoder returns an error exactly when a write to the sink failed,
\* and it is that write's error; the failing write is the last one the call
\* makes; and a write the sink has taken stays as it was for the rest of the
\* call.
C16_SinkErrorEndsCall ==
    [][enc'.pc # "idle" =>
         LET e == enc'
             n == Len(e.writes)
         IN  /\ \A k \in 1..(n - 1) : e.writes[k].ok
             /\ e.pc = "done" =>
                   /\ (e.err # NoError) <=> (n > 0 /\ ~e.writes[n].ok)
                   /\ e.err # NoError => e.err = SinkError
             /\ e.pc = "loop" => \A k \in 1..n : e.writes[k].ok
             /\ enc.pc = "loop" =>
                   /\ n >= Len(enc.writes)
                   /\ SubSeq(e.writes, 1, Len(enc.writes)) = enc.writes
      ]_vars

\* C16 witness: a call has ended with the sink's error on its second write,
\* the flush before a long value, after the sink took the first.
C16_Witness ==
    /\ enc.pc = "done" /\ enc.err = SinkError
    /\ Len(enc.writes) = 2
    /\ enc.writes[1].ok /\ ~enc.writes[2].ok
    /\ enc.i <= Len(enc.fields)

\* C17: whatever was acquired, used and released before, the context that
\* Acquire has just returned carries no parameter entry, no query entry, no
\* request, no response, no application, no response headers and the status
\* code 0.
C17_AcquiredContextIsEmpty ==
    \A r \in 1..MaxInFlight :
        held[r].state = "acquired" =>
            LET c == held[r].c
            IN  /\ c.params.keys = {} /\ c.query.keys = {}
                /\ c.Request = "nil" /\ c.Response = "nil" /\ c.app = "nil"
                /\ c.headers = "nil" /\ c.StatusCode = 0

\* C17 witness: Acquire has returned a context that went through a request
\* before: its query map has room for the 8 entries that request gave it.
C17_Witness ==
    \E r \in 1..MaxInFlight :
        /\ held[r].state = "acquired"
        /\ held[r].c.params.isNil
        /\ held[r].c.query.room = MaxParams
        /\ held[r].c.query.keys = {}

BornAt(a) ==
    CHOOSE t \in 1..Len(calls) : calls[t].op = "Group" /\ calls[t].arg = a

ParentOf(a) == calls[BornAt(a)].app

UsesOn(a, from, to) ==
    LET OnA(c) == c.op = "Use" /\ c.app = a
        sel    == SelectSeq(SubSeq(calls, from + 1, to - 1), OnA)
    IN  [k \in 1..Len(sel) |-> sel[k].arg]

\* the middleware a has accumulated before call number t: what its parent had
\* accumulated when the group was made, then its own, in the order added
RECURSIVE Accumulated(_, _)
Accumulated(a, t) ==
    IF a = 1
    THEN UsesOn(1, 0, t)
    ELSE Accumulated(ParentOf(a), BornAt(a)) \o UsesOn(a, BornAt(a), t)

\* the functions that are to run for the route registered by call number t:
\* the accumulated middleware, first added first, then the route handler
ExpectedRun(t) ==
    LET acc == Accumulated(calls[t].app, t)
    IN  [k \in 1..Len(acc) |-> <<"middleware", acc[k]>>]
           \o RouteHandler(calls[t].arg)

\* the call that registered the route whose compiled handler is id
RegisteredAt(id) ==
    CHOOSE t \in 1..Len(calls) : calls[t].op = "Get" /\ calls[t].arg = id

\* C19: when a route is requested, what runs is the middleware that had been
\* added with Use (on the route's application, inherited included) before the
\* route was registered, first added first, and then the route handler;
\* nothing added with Use after the registration runs.
C19_ChainFixedAtRegistration ==
    (served.op = "ServeHTTP" /\ served.matched) =>
        LET id == GetValue(trees, served.method, served.path).handler
            t  == RegisteredAt(id)
        IN  /\ served.ran = ExpectedRun(t)
            /\ served.ran[Len(served.ran)] = <<"handler", id>>
            /\ \A k \in 1..(Len(served.ran) - 1) :
                  /\ served.ran[k][1] = "middleware"
                  /\ \E u \in 1..(t - 1) :
                        calls[u].op = "Use" /\ calls[u].arg = served.ran[k][2]

\* the application a is the application b or a group made, directly or
\* through other groups, on b
RECURSIVE WithinApp(_, _)
WithinApp(a, b) ==
    \/ a = b
    \/ a # 1 /\ WithinApp(ParentOf(a), b)

\* C20: every route is wrapped by exactly the middleware its own application
\* value had accumulated when the route was registered: nothing that was
\* added on an application it is not within, and nothing added on an
\* enclosing application after the group was made.
C20_GroupMiddlewareScoped ==
    \A t \in 1..Len(calls) :
        calls[t].op = "Get" =>
            LET a     == calls[t].app
                chain == closures[calls[t].arg]
            IN  /\ chain = ExpectedRun(t)
                /\ \A k \in 1..(Len(chain) - 1) :
                      \E u \in 1..(t - 1) :
                         /\ calls[u].op = "Use" /\ calls[u].arg = chain[k][2]
                         /\ WithinApp(a, calls[u].app)
                         /\ calls[u].app # a => u < BornAt(a)

\* C21: in every node of every tree, ':' and '*' occur only as the first
\* byte of the path of a paramNode or wildcardNode: the path of a staticNode
\* holds neither, and the path of a paramNode holds no '/' (it ends at the
\* next '/' or at the end of the route).
C21_MarkersBeginNodes ==
    \A m \in DOMAIN trees : \A n \in NodesOf(trees[m]) :
        /\ \A k \in 1..Len(n.path) :
              n.path[k] \in Markers =>
                 k = 1 /\ n.nodeType \in {"paramNode", "wildcardNode"}
        /\ n.nodeType = "paramNode" =>
              \A k \in 1..Len(n.path) : n.path[k] # "/"

\* C22: every wildcardNode is terminal: it has no children, whatever was
\* registered after it, a route that goes on after the wildcard or shares a
\* prefix with it included.
C22_WildcardIsTerminal ==
    \A m \in DOMAIN trees : \A n \in NodesOf(trees[m]) :
        n.nodeType = "wildcardNode" =>
            Len(n.children) = 0 /\ Len(n.indices) = 0

\* C23: the staging buffer never holds more than its 512 bytes and is never
\* replaced by a larger one: an append that would not fit is made only after
\* the buffer has been flushed to the sink and reset.
C23_StagingBufferBounded ==
    enc.pc # "idle" =>
        /\ Len(enc.buf) <= StackBufSize
        /\ enc.cap = StackBufSize

\* C24: a lookup that returns no handler returns no parameter store either:
\* the result is (nil, nil), so no binding made on the way is handed to the
\* dispatcher.
C24_NoHandlerNoStore ==
    (last.op = "GetValue" /\ last.result.handler = NoHandler) =>
        last.result.params = NilParams

\* C25: DefaultErrorHandler writes at most one error response and never
\* after a response was started.  For a non-nil error on a context whose
\* status code is 0 it writes the header 404 (ErrNotFound), 400
\* (ErrBadRequest) or 500 (any other error) and then the matching body, once;
\* when a status is already set, or the error is nil, it writes nothing; and
\* it writes nothing when the handler has already begun the response.
C25_ErrorResponseOnceNotAfterStart ==
    ctx.pc = "done" =>
        LET b     == ctx.before
            a     == ctx.c
            added == SubSeq(a.out, Len(b.out) + 1, Len(a.out))
            code  == CASE ctx.err = ErrNotFound   -> 404
                       [] ctx.err = ErrBadRequest -> 400
                       [] OTHER                   -> 500
            body  == CASE ctx.err = ErrNotFound   -> errNotFoundResponse
                       [] ctx.err = ErrBadRequest -> errBadRequestResponse
                       [] OTHER                   -> errInternalServerResponse
        IN  /\ SubSeq(a.out, 1, Len(b.out)) = b.out
            /\ IF ctx.err # NoError /\ b.StatusCode = 0
               THEN /\ added = <<[call |-> "WriteHeader", arg |-> code],
                                 [call |-> "Write", arg |-> body]>>
                    /\ a.StatusCode = code
               ELSE a = b
            /\ DefaultErrorHandlerOn(b, NoError) = b
            /\ b.out # <<>> => added = <<>>

\* the bytes handed to Write by the calls out, in order
RECURSIVE BodyOf(_)
BodyOf(out) ==
    IF out = <<>> THEN <<>>
    ELSE (IF out[1].call = "Write" THEN out[1].arg ELSE <<>>)
            \o BodyOf(Tail(out))

\* C30: one call of JSONFields, OK, NotFound, StringBytes, Text, FastText or
\* FastJSON on a fresh context sets the status code, calls WriteHeader
\* exactly once and before any body byte, and writes the body once: the
\* fields as one JSON object, the bytes given, or the precomputed response
\* (for FastText, the key itself when it is not precomputed).
C30_HeaderOnceThenBody ==
    (/\ ctx.pc = "handler"
     /\ Len(ctx.called) = 1
     /\ ctx.called[1].method \in {"JSONFields", "OK", "NotFound", "StringBytes",
                                  "Text", "FastText", "FastJSON"}) =>
        LET k   == ctx.called[1]
            out == ctx.c.out
            precomputed == k.arg \in DOMAIN precomputedResponses
        IN  /\ ctx.c.StatusCode = k.status
            /\ Cardinality({i \in 1..Len(out) : out[i].call = "WriteHeader"}) = 1
            /\ out[1] = [call |-> "WriteHeader", arg |-> k.status]
            /\ \E i \in 1..Len(out) : out[i].call = "Write"
            /\ k.method \in {"JSONFields", "OK", "NotFound"} =>
                  BodyOf(out) = writeFieldsDirectJSON(k.arg)
            /\ k.method \in {"StringBytes", "Text"} => BodyOf(out) = k.arg
            /\ k.method = "FastText" =>
                  BodyOf(out) = IF precomputed THEN precomputedResponses[k.arg]
                                ELSE k.arg
            /\ (k.method = "FastJSON" /\ precomputed) =>
                  BodyOf(out) = precomputedResponses[k.arg]

\* the registered routes are static, pairwise distinct paths
DistinctStaticRoutes ==
    /\ \A i \in 1..Len(regs) : \A k \in 1..Len(regs[i].path) :
          regs[i].path[k] \notin Markers
    /\ \A i, k \in 1..Len(regs) : i # k => regs[i].path # regs[k].path

\* the trees map after registering the routes of regs, with their handlers,
\* in the order order[k], order[k + 1], ... on the trees map r
RECURSIVE RegisteredInOrder(_, _, _)
RegisteredInOrder(r, order, k) ==
    IF k > Len(regs) THEN r
    ELSE RegisteredInOrder(
            AddRoute(r, regs[order[k]].method, regs[order[k]].path,
                     regs[order[k]].handler).trees,
            order, k + 1)

\* C26: with distinct static paths registered under one method, in any
\* order, every registered path resolves to its own handler and every other
\* request path (proper prefixes and extensions of registered paths and
\* paths that differ by a trailing '/' among them) gets no match; every
\* other order of the same registrations gives the same results.
C26_StaticRoutesExact ==
    DistinctStaticRoutes =>
        /\ \A p \in StaticReqPaths :
              LET got == GetValue(trees, "GET", p)
                  I   == {i \in 1..Len(regs) : regs[i].path = p}
              IN  IF I # {}
                  THEN got = Result(regs[CHOOSE i \in I : TRUE].handler,
                                    EmptyParams)
                  ELSE got.handler = NoHandler
        /\ \A order \in Permutations(1..Len(regs)) : \A p \in StaticReqPaths :
              GetValue(RegisteredInOrder(<< >>, order, 1), "GET", p)
                 = GetValue(trees, "GET", p)

\* C26 witness: with '/ab', '/a/' and a third static path registered, the
\* lookup of '/a', a proper prefix of both that differs from '/a/' by the
\* trailing '/', has returned no match.
C26_Witness ==
    /\ DistinctStaticRoutes
    /\ Len(regs) = 3
    /\ \E i, k \in 1..3 : regs[i].path = slashAB /\ regs[k].path = slashASl
    /\ \A i \in 1..3 : regs[i].path # slashA
    /\ last.op = "GetValue" /\ last.path = slashA
    /\ last.result = NoMatch

\* C27: registration is monotone.  When AddRoute of a path that was not yet
\* registered under the method returns, every request that resolved to a
\* handler before resolves to the same handler with the same bindings.
C27_RegistrationMonotone ==
    [][(/\ last'.op = "AddRoute"
        /\ ~last'.panicked
        /\ CurrentHandler(last'.method, last'.path) = NoHandler) =>
          \A p \in TrieReqPaths \cup ReqPaths :
              LET before == GetValue(trees, last'.method, p)
              IN  before.handler # NoHandler =>
                     GetValue(trees', last'.method, p) = before]_vars

\* How many nodes at or below n hold handler under method
RECURSIVE HoldersOf(_, _, _)
HoldersOf(n, method, handler) ==
    LET below[k \in 0..Len(n.children)] ==
            IF k = 0 THEN 0
            ELSE below[k - 1] + HoldersOf(n.children[k], method, handler)
    IN  (IF n.handlers[method] = handler THEN 1 ELSE 0)
        + below[Len(n.children)]

\* C28: a route path that begins with "/" and is registered on an empty
\* router is inserted without a runtime fault (no index or slice bound is
\* exceeded while the path is cut into nodes), and on return its handler is
\* recorded on exactly one node.
C28_FirstRouteInserted ==
    [][(/\ trees = << >>
        /\ last = NoCall
        /\ last'.op = "AddRoute"
        /\ last'.path[1] = "/")
       => /\ ~last'.panicked
          /\ last'.method \in DOMAIN trees'
          /\ HoldersOf(trees'[last'.method], last'.method, 1) = 1]_vars

\* request r has acquired a context and not released it
InUse(r) == reqs[r].c # Unpooled /\ reqs[r].releases = 0

\* C29: with pooling enabled, a context acquired for a request is released
\* exactly once, and only after the route handler and any error-handler call
\* of that request have returned, on the fast path and on the slow path,
\* with and without a handler error; and no context is in use by two
\* requests at the same time, nor in the pool while a request uses it.
C29_ReleasedOnceNeverShared ==
    /\ \A r \in 1..MaxInFlight :
          LET q == reqs[r]
          IN  /\ q.releases <= 1
              /\ (q.pc = "done" /\ q.c # Unpooled) => q.releases = 1
              /\ q.releases = 1 =>
                    /\ q.pc = "done"
                    /\ q.path # "not found" => q.handlerReturned
                    /\ q.err # NoError =>
                          q.errorHandlerCalls = 1 /\ q.errorHandlerReturned
              /\ q.c = Unpooled => q.releases = 0
              /\ InUse(r) => held[q.c] = {r}
    /\ \A r1, r2 \in 1..MaxInFlight :
          (r1 # r2 /\ InUse(r1) /\ InUse(r2)) => reqs[r1].c # reqs[r2].c
    /\ \A c \in 1..Len(held) : Cardinality(held[c]) <= 1
    /\ \A i \in 1..Len(pool) :
          /\ held[pool[i]] = {}
          /\ \A j \in 1..Len(pool) : pool[i] = pool[j] => i = j

\* a request that failed in its handler has released its context after the
\* error handler, and a request served at the same time has taken that
\* context from the pool and is in its handler on the fast path
C29_Witness ==
    \E r1, r2 \in 1..MaxInFlight :
        /\ r1 # r2
        /\ reqs[r1].pc = "done"
        /\ reqs[r1].err = ErrBadRequest
        /\ reqs[r1].errorHandlerReturned
        /\ reqs[r1].releases = 1
        /\ reqs[r2].pc = "handler"
        /\ reqs[r2].path = "fast"
        /\ reqs[r2].c = reqs[r1].c

====
